---- MODULE Spec2Model ----
(***************************************************************************)
(* The agent tool-calling loop of the chat bot: ChatAgent.processMessage   *)
(* and ChatAgent.processMessageStream driving the model and the            *)
(* ToolExecutor of agent-tools.ts, behind the routes POST /agent and POST   *)
(* /agent/stream.  Under Spec one behaviour is one processing cycle of one *)
(* ChatAgent instance; under ToolSpec one behaviour is a conversation of   *)
(* one session whose requests each build their own ChatAgent and whose     *)
(* model may ask for any tool.  TenantSpec is the TenantService cache under *)
(* getTenant calls and a running clock; GatewaySpec is one call through    *)
(* fetchWithRetry of the embedding gateway or of the LLM gateway.          *)
(* EmbedBatchSpec is embedBatch chunk by chunk; RagSpec the search methods  *)
(* of RagService; ExecutorSpec the cart tools of one ToolExecutor under     *)
(* interleaved invocations; RateSpec and RateRaceSpec the rate limiter of   *)
(* one key; StreamSpec the parse of ClaudibleClient.chatStream; RequestSpec *)
(* the request validation of the two agent routes.                          *)
(***************************************************************************)
EXTENDS Integers, Sequences, FiniteSets, TLC

VARIABLES
    pc,                    \* position of the cycle inside processMessage / processMessageStream
    mode,                  \* "sync" (processMessage) or "stream" (processMessageStream)
    messages,              \* the caller's history (parameter `messages`)
    context,               \* the AgentContext of the request
    tenant,                \* the tenant configuration row of context.tenantId
    systemPrompt,          \* const systemPrompt
    claudeResponse,        \* let claudeResponse
    iterations,            \* let iterations
    conversationMessages,  \* const conversationMessages
    toolUseBlocks,         \* const toolUseBlocks of the running iteration
    toolIdx,               \* position of the for..of loop over toolUseBlocks
    toolResults,           \* const toolResults of the running iteration
    allToolCalls,          \* const allToolCalls
    cartId,                \* let cartId
    checkoutUrl,           \* let checkoutUrl
    response,              \* the AgentResponse processMessage returned
    thrown,                \* the message of the Error processMessage rejected with
    events,                \* the StreamEvents the generator has yielded
    chunkPos,              \* the `i` of the chunking loop
    cartStore,             \* ToolExecutor.cartStore
    shopCarts,             \* the carts the commerce platform holds: id -> lines
    faults,                \* collaborator anomalies seen in this cycle
    llmLog,                \* history: the request body of every LLM call
    execLog,               \* history: every ToolExecutor.execute call
    wire,                  \* the SSE frames POST /agent/stream has written
    httpResponse,          \* the JSON response of POST /agent
    tenantRow,             \* the row of the tenants table behind `tenant`
    lastExec,              \* ToolSpec: the latest execute call of the running request
    prevExec,              \* ToolSpec: the execute call before it
    execCount,             \* ToolSpec: execute calls made in this conversation
    cartsCreated,          \* ToolSpec: carts the platform created for the session
    cache,                 \* TenantService.cache: tenant id -> CacheEntry
    now,                   \* Date.now(), in ticks
    pending,               \* getTenant calls awaiting the answer of the store
    lastGet,               \* TenantSpec: the getTenant call that completed last
    prevGet,               \* TenantSpec: the getTenant call that completed before it
    gateway,               \* GatewaySpec: the gateway whose fetchWithRetry runs
    attempt,               \* let attempt of fetchWithRetry
    lastError,             \* let lastError of fetchWithRetry
    upstream,              \* history: the provider's answer to every fetch of the call
    delays,                \* history: the argument of every sleep of the call
    outcome,               \* what fetchWithRetry returned or threw
    texts,                 \* EmbedBatchSpec: the texts handed to embedBatch
    results,               \* const results of embedBatch
    chunkI,                \* the i of the chunk loop of embedBatch
    sentChunks,            \* history: the chunkTexts of every upstream call of embedBatch
    embeddings,            \* what embedBatch returned or threw
    batchPc,               \* position of embedBatch: idle, chunks or done
    ragCall,               \* RagSpec: the method of RagService called, with its arguments and config
    rpcLog,                \* history: the supabase.rpc calls of the method
    ragResult,             \* what the method returned or threw
    handlers,              \* the add_to_cart and get_cart invocations in flight on one ToolExecutor
    sessionCarts,          \* the cartStore map of that ToolExecutor
    platformCarts,         \* the carts the platform holds for it: id -> lines
    created,               \* the carts storefront.createCart made, with the context of the caller
    invoked,               \* the number of invocations started
    kvEntry,               \* the RateLimitEntry stored in KV under the key, with its expiration
    clock,                 \* Date.now() of the rate limiter, in seconds
    inflight,              \* the requests inside incrementCounter
    checks,                \* the finished checkRateLimit calls, in order
    windows,               \* the number of window entries created
    sse,                   \* the body of the streaming response of the LLM gateway
    readPos,               \* how much of the body reader.read() has delivered
    buffer,                \* chatStream: the incomplete line kept between reads
    yielded,               \* the texts chatStream has yielded, in order
    streamPc,              \* where chatStream is: idle, reading, returned
    endpoint,              \* the agent endpoint a request was posted to
    requestBody,           \* what c.req.json() of that request gives
    routeAnswer,           \* the response of the route to it before any agent work
    servicesCreated        \* whether createAgentServices was called for it

batchVars == <<texts, results, chunkI, sentChunks, embeddings, batchPc>>

ragVars == <<ragCall, rpcLog, ragResult>>

execVars == <<handlers, sessionCarts, platformCarts, created, invoked>>

rateVars == <<kvEntry, clock, inflight, checks, windows>>

streamVars == <<sse, readPos, buffer, yielded, streamPc>>

requestVars == <<endpoint, requestBody, routeAnswer, servicesCreated>>

\* the state of the components checked on their own
auxVars == <<batchVars, ragVars, execVars, rateVars, streamVars, requestVars>>

vars == <<pc, mode, messages, context, tenant, systemPrompt, claudeResponse,
          iterations, conversationMessages, toolUseBlocks, toolIdx, toolResults,
          allToolCalls, cartId, checkoutUrl, response, thrown, events, chunkPos,
          cartStore, shopCarts, faults, llmLog, execLog, wire, httpResponse,
          tenantRow, lastExec, prevExec, execCount, cartsCreated,
          cache, now, pending, lastGet, prevGet,
          gateway, attempt, lastError, upstream, delays, outcome, auxVars>>

routeVars == <<wire, httpResponse>>

toolVars == <<tenantRow, lastExec, prevExec, execCount, cartsCreated>>

tenantVars == <<cache, now, pending, lastGet, prevGet>>

gatewayVars == <<gateway, attempt, lastError, upstream, delays, outcome>>

svcVars == <<tenantVars, gatewayVars, auxVars>>

----------------------------------------------------------------------------
(* Program constants *)

MAX_TOOL_ITERATIONS == 5

chunkSize == 50

(* Bounds of the model *)

\* model turns of one cycle that may carry any of the tool lists, any of the
\* reply lengths or disagreeing stop_reason and blocks; later tool turns carry
\* a single get_cart invocation
MaxRichTurns == 1

\* collaborator anomalies (a throwing upstream call, a re-keyed cart) per cycle
MaxFaults == 1

\* execute calls of one conversation under ToolSpec
MaxToolCalls == 3

----------------------------------------------------------------------------
(* Values *)

Undefined == "undefined"

\* an absent checkoutUrl
NoUrl == <<>>

NoResponse == [none |-> TRUE]

\* no execute call yet
NoExec == [noexec |-> TRUE]

\* getTenant returned null
NoTenant == [absent |-> TRUE]

\* a text of n characters; characters are small numbers
Str(n) == [i \in 1..n |-> i % 7]

\* lengths of the final replies the scripted model may give
ReplyLens == {0, 1, 49, 50, 51, 120}

TextBlock(t) == [type |-> "text", text |-> t]

ToolUseBlock(id, name, input) ==
    [type |-> "tool_use", id |-> id, name |-> name, input |-> input]

\* the invocation id the model gives block k of its n-th response
ToolId(n, k) == 10 * n + k

NoInput == [variantId |-> "", quantity |-> 0, email |-> <<>>, query |-> <<>>,
            productHandle |-> ""]

\* the (name, input) pairs the scripted model may ask for
AddToCart   == <<"add_to_cart", [NoInput EXCEPT !.variantId = "v1"]>>
AddNoId     == <<"add_to_cart", NoInput>>
GetCart     == <<"get_cart", NoInput>>
CreateOrder == <<"create_order", [NoInput EXCEPT !.email = <<"a", "@", "b">>]>>
BadOrder    == <<"create_order", [NoInput EXCEPT !.email = <<"n", "o", "p", "e">>]>>
UnknownTool == <<"refund_order", NoInput>>
SearchShoe  == <<"search_products", [NoInput EXCEPT !.query = <<"s", "h", "o", "e">>]>>
SearchHat   == <<"search_products", [NoInput EXCEPT !.query = <<"h", "a", "t">>]>>
SearchBlank == <<"search_products", [NoInput EXCEPT !.query = <<" ", " ">>]>>
GetProduct  == <<"get_product_details", [NoInput EXCEPT !.productHandle = "hat"]>>
GetMissing  == <<"get_product_details", [NoInput EXCEPT !.productHandle = "cap"]>>
GetNoHandle == <<"get_product_details", NoInput>>
SearchFaqs  == <<"search_faqs", [NoInput EXCEPT !.query = <<"s", "h", "i", "p">>]>>
FaqsNoQuery == <<"search_faqs", NoInput>>

\* what the model may ask the executor for in a conversation
ToolRequests ==
    { AddToCart, AddNoId, GetCart, CreateOrder, BadOrder, UnknownTool, SearchShoe,
      SearchHat, SearchBlank, GetProduct, GetMissing, GetNoHandle, SearchFaqs, FaqsNoQuery }

RichToolLists ==
    { <<AddToCart>>, <<GetCart>>, <<AddToCart, GetCart>>, <<AddToCart, CreateOrder>>,
      <<UnknownTool, AddToCart>>, <<AddNoId, BadOrder>> }

LeanToolLists == { <<GetCart>> }

\* the text that accompanies the tool request of the model's n-th response
ScriptText(n) == Str(n)

\* the content blocks of a response: text first, then the tool_use blocks
Blocks(n, calls) ==
    [k \in 1..Len(calls) |-> ToolUseBlock(ToolId(n, k), calls[k][1], calls[k][2])]

ContentOf(n, text, calls) ==
    (IF Len(text) > 0 THEN <<TextBlock(text)>> ELSE <<>>) \o Blocks(n, calls)

Histories ==
    { << [role |-> "user", content |-> "hi"] >>,
      << [role |-> "user", content |-> "shoes?"],
         [role |-> "assistant", content |-> "which size?"],
         [role |-> "user", content |-> "42"] >> }

\* strings the code concatenates are sequences of characters
TenantId == <<"t", "1">>
SessionId == <<"s", "1">>

\* the TenantConfig objects the tenant resolver may hand out for TenantId:
\* the object TenantService.getTenant maps from a row, which carries no
\* shopifyCredentials, and TenantConfig objects of types/index.ts that carry
\* them, with and without an admin token
TenantConfigs ==
    { [systemPrompt |-> "custom", shopifyStoreUrl |-> "shop.example"],
      [systemPrompt |-> Undefined,
       shopifyCredentials |-> [storeUrl |-> "shop.example", storefrontToken |-> "pub",
                               adminToken |-> ""]],
      [systemPrompt |-> "custom",
       shopifyCredentials |-> [storeUrl |-> "shop.example", storefrontToken |-> "pub",
                               adminToken |-> "adm"]] }

\* no getTenant call has completed
NoGet == [noget |-> TRUE]

\* let lastError: Error | null = null
NoError == [noerror |-> TRUE]

\* fetchWithRetry has neither returned nor thrown
NoOutcome == [nooutcome |-> TRUE]

\* the tenants table holds no row for the id
NoRow == [norow |-> TRUE]

\* the tenant object did not come out of the tenants table
Injected == [injected |-> TRUE]

\* rows of the tenants table (TenantRow)
TenantRows ==
    { [shopify_store_url |-> "shop.example", shopify_storefront_token |-> "pub",
       shopify_admin_token |-> "adm", system_prompt |-> "custom"],
      [shopify_store_url |-> "shop.example", shopify_storefront_token |-> "pub",
       shopify_admin_token |-> "", system_prompt |-> "custom"],
      [shopify_store_url |-> "", shopify_storefront_token |-> "",
       shopify_admin_token |-> "", system_prompt |-> "custom"] }

\* TenantService.getTenant on a cache miss: the row mapped to a TenantConfig,
\* null when there is no row
getTenant(row) ==
    IF row = NoRow THEN NoTenant
    ELSE [systemPrompt |-> row.system_prompt, shopifyStoreUrl |-> row.shopify_store_url]

\* the row a tenant object of TenantConfigs was mapped from
RowOf(tn) ==
    IF \E r \in TenantRows : getTenant(r) = tn
    THEN CHOOSE r \in TenantRows : getTenant(r) = tn
    ELSE Injected

Line(v, q) == [merchandiseId |-> v, quantity |-> q]

CartIdSeq == <<"c1", "c2", "c3", "c4", "c5", "c6">>

\* the id the platform gives the next cart it creates or re-keys
FreshCartId(carts) == CartIdSeq[Cardinality(DOMAIN carts)]

\* the id of a cart the platform no longer knows
StaleCartId == "c9"

CheckoutUrlOf(id) == <<"https://shop/checkout", id>>

----------------------------------------------------------------------------
(* agent-tools.ts *)

formatCart(cart) ==
    [cartId |-> cart.cartId,
     checkoutUrl |-> cart.checkoutUrl,
     itemCount |-> Len(cart.lines),
     items |-> [i \in 1..Len(cart.lines) |->
                  [variantId |-> cart.lines[i].merchandiseId,
                   quantity |-> cart.lines[i].quantity]]]

\* `${context.tenantId}:${context.sessionId}`
SessionKey(ctx) == ctx.tenantId \o <<":">> \o ctx.sessionId

\* mutant: the map is not consulted
getCartIdOfContext(store, ctx) == ctx.cartId

\* this.cartStore.get(sessionKey) || context.cartId
getCartId(store, ctx) ==
    IF SessionKey(ctx) \in DOMAIN store
    THEN store[SessionKey(ctx)]
    ELSE ctx.cartId

\* mutant: the created cart is not remembered
setCartIdForget(store, ctx, id) == store

\* this.cartStore.set(sessionKey, cartId)
setCartId(store, ctx, id) ==
    [k \in DOMAIN store \cup {SessionKey(ctx)} |->
        IF k = SessionKey(ctx) THEN id ELSE store[k]]

\* ShopifyFactory.createStorefrontClient(tenant) is not null
createStorefrontClient(tn) ==
    /\ "shopifyCredentials" \in DOMAIN tn
    /\ tn.shopifyCredentials.storeUrl # ""
    /\ tn.shopifyCredentials.storefrontToken # ""

\* ShopifyFactory.createAdminClient(tenant) is not null
createAdminClient(tn) ==
    /\ "shopifyCredentials" \in DOMAIN tn
    /\ tn.shopifyCredentials.storeUrl # ""
    /\ tn.shopifyCredentials.adminToken # ""

Ok(data) == [success |-> TRUE, data |-> data]
Err(msg) == [success |-> FALSE, error |-> msg]

\* a tool threw an Error with this message instead of returning a ToolResult
Thrown(msg) == [thrown |-> msg]

\* one way a tool can end: what it returned or threw, the session map and the
\* platform's carts afterwards, whether a collaborator misbehaved, and the
\* collaborator calls it made, in order
Outcome(result, store, carts, fault) ==
    [result |-> result, store |-> store, carts |-> carts, fault |-> fault,
     calls |-> <<>>]

\* the outcomes S of the steps that follow the collaborator calls `names`
Calling(names, S) == { [o EXCEPT !.calls = names \o @] : o \in S }

\* await this.tenantService.getTenant(context.tenantId): the lookup answers
\* and the tool goes on with S, or the lookup throws
LookupTenant(store, carts, canFault, S) ==
    Calling(<<"tenantService.getTenant">>,
            S \cup (IF "lookup" \in canFault
                    THEN {Outcome(Thrown(<<"Failed to fetch tenant: ", "connection refused">>),
                                  store, carts, 1)}
                    ELSE {}))

CartResponse(id, lines) ==
    [cartId |-> id, checkoutUrl |-> CheckoutUrlOf(id), lines |-> lines]

\* ShopifyStorefrontClient.createCart: the created cart
StorefrontCreateCart(carts, lines) ==
    CartResponse(FreshCartId(carts), lines)

PutCart(carts, id, lines) ==
    [k \in DOMAIN carts \cup {id} |-> IF k = id THEN lines ELSE carts[k]]

\* String.prototype.trim
RECURSIVE trim(_)
trim(str) ==
    IF Len(str) = 0 THEN str
    ELSE IF Head(str) = " " THEN trim(Tail(str))
    ELSE IF str[Len(str)] = " " THEN trim(SubSeq(str, 1, Len(str) - 1))
    ELSE str

\* rag.searchProducts over a fixed indexed catalog
RagSearchProducts(query) ==
    IF query = <<"s", "h", "o", "e">>
    THEN << [id |-> "p1", title |-> "Shoe", description |-> Undefined,
             price |-> 20, currency |-> "USD"] >>
    ELSE <<>>

\* rag.searchFaqs over a fixed FAQ index
RagSearchFaqs(query) ==
    IF query = <<"s", "h", "i", "p">>
    THEN << [question |-> "Shipping?", answer |-> "3 days", category |-> "shipping"] >>
    ELSE <<>>

\* the live catalog of the commerce platform
StorefrontSearchProducts(query) ==
    IF query \in { <<"s", "h", "o", "e">>, <<"h", "a", "t">> }
    THEN << [id |-> "gid1", handle |-> "hat", title |-> "Hat", price |-> 9] >>
    ELSE <<>>

\* ShopifyStorefrontClient.getProduct: the product of the handle, or null
NoProduct == [noproduct |-> TRUE]

StorefrontGetProduct(handle) ==
    IF handle = "hat" THEN StorefrontSearchProducts(<<"h", "a", "t">>)[1] ELSE NoProduct

formatProduct(product) ==
    [title |-> product.title, handle |-> product.handle,
     price |-> <<"$", product.price>>]

MapSeq(seq, Op(_)) == [i \in 1..Len(seq) |-> Op(seq[i])]

\* the mapping of one indexed-catalog hit in searchProducts
RagProductView(p) ==
    [id |-> p.id, title |-> p.title,
     description |-> IF p.description = Undefined THEN "No description" ELSE p.description,
     price |-> <<"$", p.price, p.currency>>]

FaqView(f) == [question |-> f.question, answer |-> f.answer, category |-> f.category]

\* mutant: no products is reported as a failure
NoProductsFoundError == Err(<<"No products found">>)

\* { success: true, data: { products: [], message: 'No products found' } }
NoProductsFound == Ok([products |-> <<>>, message |-> <<"No products found">>])

searchProducts(input, ctx, store, carts, tn, canFault) ==
    LET query == input.query
        fallback ==
            LookupTenant(store, carts, canFault,
                IF tn = NoTenant
                THEN {Outcome(Err(<<"Tenant not found">>), store, carts, 0)}
                ELSE IF ~createStorefrontClient(tn)
                THEN {Outcome(NoProductsFound, store, carts, 0)}
                ELSE Calling(<<"storefront.searchProducts">>,
                        {Outcome(Ok([source |-> "shopify",
                                     products |-> MapSeq(StorefrontSearchProducts(query),
                                                         formatProduct)]),
                                 store, carts, 0)}
                        \cup (IF "upstream" \in canFault
                              THEN {Outcome(Thrown(<<"Shopify Storefront API error: 502">>),
                                            store, carts, 1)}
                              ELSE {})))
    IN  IF Len(query) = 0 \/ Len(trim(query)) = 0
        THEN {Outcome(Err(<<"Search query is required">>), store, carts, 0)}
        ELSE Calling(<<"rag.searchProducts">>,
                (IF Len(RagSearchProducts(query)) > 0
                 THEN {Outcome(Ok([source |-> "database",
                                   products |-> MapSeq(RagSearchProducts(query),
                                                       RagProductView)]),
                               store, carts, 0)}
                 ELSE fallback)
                \cup (IF "rag" \in canFault
                      THEN {Outcome(Thrown(<<"Embedding API error: 500">>), store, carts, 1)}
                      ELSE {}))

getProductDetails(input, ctx, store, carts, tn, canFault) ==
    IF input.productHandle = ""
    THEN {Outcome(Err(<<"Product handle is required">>), store, carts, 0)}
    ELSE LookupTenant(store, carts, canFault,
            IF tn = NoTenant
            THEN {Outcome(Err(<<"Tenant not found">>), store, carts, 0)}
            ELSE IF ~createStorefrontClient(tn)
            THEN {Outcome(Err(<<"Shopify not configured for this store">>), store, carts, 0)}
            ELSE Calling(<<"storefront.getProduct">>,
                    {IF StorefrontGetProduct(input.productHandle) = NoProduct
                     THEN Outcome(Err(<<"Product not found: ", input.productHandle>>),
                                  store, carts, 0)
                     ELSE Outcome(Ok(formatProduct(StorefrontGetProduct(input.productHandle))),
                                  store, carts, 0)}
                    \cup (IF "upstream" \in canFault
                          THEN {Outcome(Thrown(<<"Shopify Storefront API error: 502">>),
                                        store, carts, 1)}
                          ELSE {})))

searchFaqs(input, ctx, store, carts, tn, canFault) ==
    LET query == input.query
    IN  IF Len(query) = 0 \/ Len(trim(query)) = 0
        THEN {Outcome(Err(<<"Search query is required">>), store, carts, 0)}
        ELSE Calling(<<"rag.searchFaqs">>,
                {IF Len(RagSearchFaqs(query)) = 0
                 THEN Outcome(Ok([faqs |-> <<>>, message |-> <<"No relevant FAQs found">>]),
                              store, carts, 0)
                 ELSE Outcome(Ok([faqs |-> MapSeq(RagSearchFaqs(query), FaqView)]),
                              store, carts, 0)}
                \cup (IF "rag" \in canFault
                      THEN {Outcome(Thrown(<<"Embedding API error: 500">>), store, carts, 1)}
                      ELSE {}))

\* ToolExecutor.addToCart after validation and client creation: the upstream
\* call answers, answers under a new cart id, or throws
addToCartUpstream(input, ctx, store, carts, canFault) ==
    LET quantity == IF input.quantity = 0 THEN 1 ELSE input.quantity
        line == Line(input.variantId, quantity)
        existingCartId == getCartId(store, ctx)
        done(cart, st) ==
            Outcome(Ok([cartId |-> formatCart(cart).cartId,
                        checkoutUrl |-> formatCart(cart).checkoutUrl,
                        itemCount |-> formatCart(cart).itemCount,
                        items |-> formatCart(cart).items,
                        message |-> <<"Added", quantity, "item(s) to cart">>]),
                    st, PutCart(carts, cart.cartId, cart.lines), 0)
    IN  IF existingCartId # Undefined
        THEN Calling(<<"storefront.addToCart">>,
                IF existingCartId \in DOMAIN carts
                THEN {done(CartResponse(existingCartId,
                                        Append(carts[existingCartId], line)), store)}
                     \cup (IF "upstream" \in canFault
                           THEN {[done(CartResponse(FreshCartId(carts),
                                        Append(carts[existingCartId], line)), store)
                                    EXCEPT !.fault = 1],
                                 Outcome(Thrown(<<"Shopify Storefront API error: 502">>),
                                         store, carts, 1)}
                           ELSE {})
                ELSE {Outcome(Thrown(<<"Add to cart failed: cart not found">>),
                              store, carts, 0)})
        ELSE Calling(<<"storefront.createCart">>,
                {done(StorefrontCreateCart(carts, <<line>>),
                      setCartId(store, ctx, StorefrontCreateCart(carts, <<line>>).cartId))}
                \cup (IF "upstream" \in canFault
                      THEN {Outcome(Thrown(<<"Shopify Storefront API error: 502">>),
                                    store, carts, 1)}
                      ELSE {}))

addToCart(input, ctx, store, carts, tn, canFault) ==
    IF input.variantId = ""
    THEN {Outcome(Err(<<"Variant ID is required">>), store, carts, 0)}
    ELSE LookupTenant(store, carts, canFault,
            IF tn = NoTenant
            THEN {Outcome(Err(<<"Tenant not found">>), store, carts, 0)}
            ELSE IF ~createStorefrontClient(tn)
            THEN {Outcome(Err(<<"Shopify not configured for this store">>), store, carts, 0)}
            ELSE addToCartUpstream(input, ctx, store, carts, canFault))

\* mutant: a failed fetch of the cart is reported as a failure
CartEmptyOrExpiredError == Err(<<"Cart is empty or expired">>)

\* the catch block of getCart:
\* { success: true, data: { items: [], message: 'Cart is empty or expired' } }
CartEmptyOrExpired == Ok([items |-> <<>>, message |-> <<"Cart is empty or expired">>])

\* { success: true, data: { items: [], message: 'Cart is empty' } }
CartEmpty == Ok([items |-> <<>>, message |-> <<"Cart is empty">>])

getCart(ctx, store, carts, tn, canFault) ==
    LET id == getCartId(store, ctx)
        expired == Outcome(CartEmptyOrExpired, store, carts, 0)
    IN  IF id = Undefined
        THEN {Outcome(CartEmpty, store, carts, 0)}
        ELSE LookupTenant(store, carts, canFault,
                IF tn = NoTenant
                THEN {Outcome(Err(<<"Tenant not found">>), store, carts, 0)}
                ELSE IF ~createStorefrontClient(tn)
                THEN {Outcome(Err(<<"Shopify not configured">>), store, carts, 0)}
                ELSE Calling(<<"storefront.getCart">>,
                        IF id \in DOMAIN carts
                        THEN {Outcome(Ok(formatCart(CartResponse(id, carts[id]))),
                                      store, carts, 0)}
                             \cup (IF "upstream" \in canFault
                                   THEN {Outcome(Ok(formatCart(CartResponse(FreshCartId(carts),
                                                                            carts[id]))),
                                                 store,
                                                 PutCart(carts, FreshCartId(carts), carts[id]),
                                                 1),
                                         [expired EXCEPT !.fault = 1]}
                                   ELSE {})
                        ELSE {expired}))

\* mutant: every non-empty string passes for one that holds the character
includesAny(str, ch) == Len(str) > 0

\* String.prototype.includes for a one-character needle
includes(str, ch) == \E i \in 1..Len(str) : str[i] = ch

createOrder(input, ctx, store, carts, tn, canFault) ==
    LET id == getCartId(store, ctx)
        order ==
            IF ~createAdminClient(tn)
            THEN {Outcome(Ok([checkoutUrl |-> CheckoutUrlOf(id),
                              message |-> <<"Please complete your order using the checkout link">>]),
                          store, carts, 0)}
            ELSE Calling(<<"admin.createDraftOrder">>,
                    {Outcome(Ok([orderId |-> <<"draft", id>>,
                                 invoiceUrl |-> <<"https://shop/invoice", id>>,
                                 totalPrice |-> Len(carts[id]),
                                 status |-> "OPEN",
                                 message |-> <<"Draft order created. Check your email for the invoice.">>]),
                             store, carts, 0)}
                    \cup (IF "upstream" \in canFault
                          THEN {Outcome(Thrown(<<"Shopify Admin API error: 500">>),
                                        store, carts, 1)}
                          ELSE {}))
    IN  IF Len(input.email) = 0 \/ ~includes(input.email, "@")
        THEN {Outcome(Err(<<"Valid email address is required">>), store, carts, 0)}
        ELSE IF id = Undefined
        THEN {Outcome(Err(<<"Cart is empty. Add items before creating order.">>),
                      store, carts, 0)}
        ELSE LookupTenant(store, carts, canFault,
                IF tn = NoTenant
                THEN {Outcome(Err(<<"Tenant not found">>), store, carts, 0)}
                ELSE IF ~createStorefrontClient(tn)
                THEN {Outcome(Err(<<"Shopify not configured">>), store, carts, 0)}
                ELSE Calling(<<"storefront.getCart">>,
                        IF id \notin DOMAIN carts
                        THEN {Outcome(Thrown(<<"Cart not found">>), store, carts, 0)}
                        ELSE IF Len(carts[id]) = 0
                        THEN {Outcome(Err(<<"Cart is empty">>), store, carts, 0)}
                        ELSE order))

\* the switch of ToolExecutor.execute: what the selected tool returns or throws
dispatch(toolName, input, ctx, store, carts, tn, canFault) ==
    CASE toolName = "search_products"     -> searchProducts(input, ctx, store, carts, tn, canFault)
      [] toolName = "get_product_details" -> getProductDetails(input, ctx, store, carts, tn, canFault)
      [] toolName = "add_to_cart"         -> addToCart(input, ctx, store, carts, tn, canFault)
      [] toolName = "get_cart"            -> getCart(ctx, store, carts, tn, canFault)
      [] toolName = "search_faqs"         -> searchFaqs(input, ctx, store, carts, tn, canFault)
      [] toolName = "create_order"        -> createOrder(input, ctx, store, carts, tn, canFault)
      [] OTHER -> {Outcome(Err(<<"Unknown tool: ", toolName>>), store, carts, 0)}

\* mutant: no catch block around the switch
CatchNothing(o) == o

\* the catch block of execute: a thrown Error becomes { success: false, error: message }
Catch(o) ==
    IF "thrown" \in DOMAIN o.result
    THEN [o EXCEPT !.result = Err(o.result.thrown)]
    ELSE o

\* ToolExecutor.execute: the outcomes of one call; canFault holds the kinds of
\* collaborator that may misbehave during it
execute(toolName, input, ctx, store, carts, tn, canFault) ==
    { Catch(o) : o \in dispatch(toolName, input, ctx, store, carts, tn, canFault) }

----------------------------------------------------------------------------
(* chat-agent: helpers of ChatAgent *)

RECURSIVE JoinText(_)
JoinText(blocks) ==
    IF Len(blocks) = 0 THEN <<>> ELSE Head(blocks).text \o JoinText(Tail(blocks))

IsText(block) == block.type = "text"
IsToolUse(block) == block.type = "tool_use"

\* content.filter(type === 'text').map(text).join('')
extractText(content) == JoinText(SelectSeq(content, IsText))

\* content.filter(type === 'tool_use')
extractToolUse(content) == SelectSeq(content, IsToolUse)

\* [...messages].reverse().find(m => m.role === 'user')?.content || ''
RECURSIVE LastUserContent(_)
LastUserContent(msgs) ==
    IF Len(msgs) = 0 THEN ""
    ELSE IF msgs[Len(msgs)].role = "user" THEN msgs[Len(msgs)].content
    ELSE LastUserContent(SubSeq(msgs, 1, Len(msgs) - 1))

\* rag.buildContext(rag.search(tenantId, userQuery)) over a fixed corpus
RagContext(userQuery) == IF userQuery = "42" THEN "- Shoe 42 ($20)" ELSE ""

buildSystemPrompt(tenantPrompt, ragContext) ==
    LET basePrompt == IF tenantPrompt = Undefined THEN "DEFAULT_SYSTEM_PROMPT"
                      ELSE tenantPrompt
    IN  IF ragContext = "" THEN <<basePrompt>>
        ELSE <<basePrompt, "CONTEXT FROM STORE DATABASE:", ragContext>>

\* ChatAgent.buildPrompt: `${basePrompt}\n${toolGuidance}`
buildPrompt(tn, userQuery) ==
    buildSystemPrompt(IF tn = NoTenant THEN Undefined ELSE tn.systemPrompt,
                      RagContext(userQuery))
        \o <<"TOOL USAGE GUIDELINES">>

\* messages.map(m => ({ role: m.role, content: m.content }))
MapMessages(msgs) ==
    [i \in 1..Len(msgs) |-> [role |-> msgs[i].role, content |-> msgs[i].content]]

AGENT_TOOLS ==
    <<"search_products", "get_product_details", "add_to_cart", "get_cart",
      "search_faqs", "create_order">>

\* the JSON body callClaude / callClaudeWithToolResults post
RequestBody(msgs, system) ==
    [system |-> system, messages |-> msgs, tools |-> AGENT_TOOLS]

\* JSON.stringify(result)
JSONstringify(result) == <<"json", result>>

\* the responses the scripted model may give to its n-th call
ToolResponses(n) ==
    { [stop_reason |-> "tool_use", content |-> ContentOf(n, ScriptText(n), calls)] :
        calls \in IF n <= MaxRichTurns THEN RichToolLists ELSE LeanToolLists }

\* a final answer: any of the reply lengths in the first turns, the text of
\* the turn number later
FinalResponses(n) ==
    IF n <= MaxRichTurns
    THEN { [stop_reason |-> "end_turn", content |-> ContentOf(n, Str(len), <<>>)] :
             len \in ReplyLens }
         \cup { [stop_reason |-> "end_turn",
                 content |-> <<TextBlock(Str(2)), TextBlock(Str(3))>>] }
    ELSE { [stop_reason |-> "end_turn", content |-> ContentOf(n, Str(n), <<>>)] }

\* responses whose stop_reason and blocks disagree
OddResponses(n) ==
    IF n <= MaxRichTurns
    THEN { [stop_reason |-> "max_tokens", content |-> ContentOf(n, ScriptText(n), <<AddToCart>>)],
           [stop_reason |-> "end_turn", content |-> ContentOf(n, ScriptText(n), <<GetCart>>)],
           [stop_reason |-> "tool_use", content |-> ContentOf(n, ScriptText(n), <<>>)] }
    ELSE {}

Responses(n) == ToolResponses(n) \cup FinalResponses(n) \cup OddResponses(n)

\* `Claude API error: ${response.status} - ${errorText}`
ClaudeApiError == <<"Claude API error: ", 500, " - ", "upstream body">>

\* the same Error for a throttled call
ClaudeRateLimited == <<"Claude API error: ", 429, " - ", "rate limited">>

\* the Errors callClaude and callClaudeWithToolResults throw on !response.ok
ClaudeErrors == {ClaudeApiError, ClaudeRateLimited}

----------------------------------------------------------------------------
(* The state machine *)

\* no getTenant call and no gateway call has been made: the TenantService
\* cache is the empty Map of its constructor
ServicesIdle ==
    /\ cache = <<>>
    /\ now = 0
    /\ pending = {}
    /\ lastGet = NoGet
    /\ prevGet = NoGet
    /\ gateway = "none"
    /\ attempt = 0
    /\ lastError = NoError
    /\ upstream = <<>>
    /\ delays = <<>>
    /\ outcome = NoOutcome
    /\ texts = <<>>
    /\ results = <<>>
    /\ chunkI = 0
    /\ sentChunks = <<>>
    /\ embeddings = NoOutcome
    /\ batchPc = "idle"
    /\ ragCall = NoOutcome
    /\ rpcLog = <<>>
    /\ ragResult = NoOutcome
    /\ handlers = <<>>
    /\ sessionCarts = <<>>
    /\ platformCarts = <<>>
    /\ created = <<>>
    /\ invoked = 0
    /\ kvEntry = NoOutcome
    /\ clock = 0
    /\ inflight = <<>>
    /\ checks = <<>>
    /\ windows = 0
    /\ sse = <<>>
    /\ readPos = 0
    /\ buffer = <<>>
    /\ yielded = <<>>
    /\ streamPc = "idle"
    /\ endpoint = ""
    /\ requestBody = NoOutcome
    /\ routeAnswer = NoOutcome
    /\ servicesCreated = FALSE

Init ==
    /\ pc = "idle"
    /\ mode = "sync"
    /\ messages = <<>>
    /\ context = [tenantId |-> TenantId, sessionId |-> SessionId, cartId |-> Undefined]
    /\ tenant \in TenantConfigs
    /\ systemPrompt = <<>>
    /\ claudeResponse = NoResponse
    /\ iterations = 0
    /\ conversationMessages = <<>>
    /\ toolUseBlocks = <<>>
    /\ toolIdx = 1
    /\ toolResults = <<>>
    /\ allToolCalls = <<>>
    /\ cartId = Undefined
    /\ checkoutUrl = NoUrl
    /\ response = NoResponse
    /\ thrown = <<>>
    /\ events = <<>>
    /\ chunkPos = 0
    /\ cartStore = <<>>
    /\ shopCarts = [id \in {"c0"} |-> <<Line("v0", 1)>>]
    /\ faults = 0
    /\ llmLog = <<>>
    /\ execLog = <<>>
    /\ wire = <<>>
    /\ httpResponse = NoResponse
    /\ tenantRow = RowOf(tenant)
    /\ lastExec = NoExec
    /\ prevExec = NoExec
    /\ execCount = 0
    /\ cartsCreated = 0
    /\ ServicesIdle

\* processMessage rejects: the caller of the sync form sees the rejection,
\* the generator's catch block takes it in the streaming form
Throw(msg) ==
    /\ thrown' = msg
    /\ pc' = IF mode = "sync" THEN "thrown" ELSE "catch"

\* a request arrives: processMessage(messages, context) or
\* processMessageStream(messages, context)
Start ==
    /\ pc = "idle"
    /\ \E m \in {"sync", "stream"}, h \in Histories, c \in {Undefined, "c0"} :
        /\ mode' = m
        /\ messages' = h
        /\ context' = [context EXCEPT !.cartId = c]
    /\ pc' = "buildPrompt"
    /\ UNCHANGED <<tenant, systemPrompt, claudeResponse, iterations,
                   conversationMessages, toolUseBlocks, toolIdx, toolResults,
                   allToolCalls, cartId, checkoutUrl, response, thrown, events,
                   chunkPos, cartStore, shopCarts, faults, llmLog, execLog>>
    /\ UNCHANGED <<routeVars, toolVars, svcVars>>

\* lines 468-477: the system prompt is built, the locals are initialised
BuildPromptOk ==
    /\ pc = "buildPrompt"
    /\ systemPrompt' = buildPrompt(tenant, LastUserContent(messages))
    /\ allToolCalls' = <<>>
    /\ cartId' = context.cartId
    /\ checkoutUrl' = NoUrl
    /\ pc' = "callClaude"
    /\ UNCHANGED <<mode, messages, context, tenant, claudeResponse, iterations,
                   conversationMessages, toolUseBlocks, toolIdx, toolResults,
                   response, thrown, events, chunkPos, cartStore, shopCarts,
                   faults, llmLog, execLog>>
    /\ UNCHANGED <<routeVars, toolVars, svcVars>>

\* tenantService.getTenant or rag.search throws inside buildPrompt
BuildPromptFail ==
    /\ pc = "buildPrompt"
    /\ Throw(<<"Failed to fetch tenant: ", "connection refused">>)
    /\ UNCHANGED <<mode, messages, context, tenant, systemPrompt, claudeResponse,
                   iterations, conversationMessages, toolUseBlocks, toolIdx,
                   toolResults, allToolCalls, cartId, checkoutUrl, response,
                   events, chunkPos, cartStore, shopCarts, faults, llmLog, execLog>>
    /\ UNCHANGED <<routeVars, toolVars, svcVars>>

\* lines 480-489: the initial call answers
CallClaudeOk ==
    /\ pc = "callClaude"
    /\ llmLog' = Append(llmLog, RequestBody(MapMessages(messages), systemPrompt))
    /\ \E r \in Responses(Len(llmLog) + 1) : claudeResponse' = r
    /\ iterations' = 0
    /\ conversationMessages' = MapMessages(messages)
    /\ pc' = "loopTest"
    /\ UNCHANGED <<mode, messages, context, tenant, systemPrompt, toolUseBlocks,
                   toolIdx, toolResults, allToolCalls, cartId, checkoutUrl,
                   response, thrown, events, chunkPos, cartStore, shopCarts,
                   faults, execLog>>
    /\ UNCHANGED <<routeVars, toolVars, svcVars>>

\* lines 401-404: the initial call is answered with a non-2xx status
CallClaudeFail ==
    /\ pc = "callClaude"
    /\ llmLog' = Append(llmLog, RequestBody(MapMessages(messages), systemPrompt))
    /\ \E err \in ClaudeErrors : Throw(err)
    /\ UNCHANGED <<mode, messages, context, tenant, systemPrompt, claudeResponse,
                   iterations, conversationMessages, toolUseBlocks, toolIdx,
                   toolResults, allToolCalls, cartId, checkoutUrl, response,
                   events, chunkPos, cartStore, shopCarts, faults, execLog>>
    /\ UNCHANGED <<routeVars, toolVars, svcVars>>

\* mutants of the loop condition: one iteration too many, one too few
LoopConditionInclusive(resp, iter) ==
    resp.stop_reason = "tool_use" /\ iter <= MAX_TOOL_ITERATIONS

LoopConditionShort(resp, iter) ==
    resp.stop_reason = "tool_use" /\ iter < MAX_TOOL_ITERATIONS - 1

\* the condition of the while loop, lines 492-495
LoopCondition(resp, iter) ==
    resp.stop_reason = "tool_use" /\ iter < MAX_TOOL_ITERATIONS

\* lines 496-512: the loop body up to the for loop
LoopEnter ==
    /\ pc = "loopTest"
    /\ LoopCondition(claudeResponse, iterations)
    /\ iterations' = iterations + 1
    /\ toolUseBlocks' = extractToolUse(claudeResponse.content)
    /\ conversationMessages' =
          Append(conversationMessages,
                 [role |-> "assistant", content |-> claudeResponse.content])
    /\ toolResults' = <<>>
    /\ toolIdx' = 1
    /\ pc' = "execTools"
    /\ UNCHANGED <<mode, messages, context, tenant, systemPrompt, claudeResponse,
                   allToolCalls, cartId, checkoutUrl, response, thrown, events,
                   chunkPos, cartStore, shopCarts, faults, llmLog, execLog>>
    /\ UNCHANGED <<routeVars, toolVars, svcVars>>

\* mutant: the request's context is handed on without the running cartId
ExecContextStale(ctx, cid) == ctx

\* the context handed to the executor: { ...context, cartId }
ExecContext(ctx, cid) == [ctx EXCEPT !.cartId = cid]

\* mutant: the first cart id seen is kept
CaptureCartIdFirst(cid, result) ==
    IF cid = Undefined /\ result.success /\ "data" \in DOMAIN result
       /\ "cartId" \in DOMAIN result.data
    THEN result.data.cartId ELSE cid

\* if (data.cartId) cartId = data.cartId, guarded by result.success && result.data
CaptureCartId(cid, result) ==
    IF result.success /\ "data" \in DOMAIN result
       /\ "cartId" \in DOMAIN result.data /\ result.data.cartId # ""
    THEN result.data.cartId ELSE cid

CaptureCheckoutUrl(url, result) ==
    IF result.success /\ "data" \in DOMAIN result
       /\ "checkoutUrl" \in DOMAIN result.data /\ result.data.checkoutUrl # NoUrl
    THEN result.data.checkoutUrl ELSE url

\* mutant: the result is keyed by a wrong invocation id
ToolResultBlockWrongId(toolBlock, result) ==
    [type |-> "tool_result", tool_use_id |-> toolBlock.id + 1,
     content |-> JSONstringify(result)]

\* mutant: a failed result is fed back without its error
ToolResultBlockHideError(toolBlock, result) ==
    [type |-> "tool_result", tool_use_id |-> toolBlock.id,
     content |-> JSONstringify([success |-> result.success])]

\* toolResults.push({ type: 'tool_result', tool_use_id: toolBlock.id, content })
ToolResultBlock(toolBlock, result) ==
    [type |-> "tool_result", tool_use_id |-> toolBlock.id,
     content |-> JSONstringify(result)]

\* the collaborators that may misbehave under a tool of the running cycle: the
\* commerce platform; the tenant lookup is answered from the entry that
\* buildPrompt's lookup left in the TenantService cache
CycleFaults == IF faults < MaxFaults THEN {"upstream"} ELSE {}

\* lines 514-535: one pass of the for loop, the awaited execute included
ExecTool ==
    /\ pc = "execTools"
    /\ toolIdx <= Len(toolUseBlocks)
    /\ LET toolBlock == toolUseBlocks[toolIdx]
           ctx == ExecContext(context, cartId)
       IN  \E o \in execute(toolBlock.name, toolBlock.input, ctx, cartStore,
                            shopCarts, tenant, CycleFaults) :
              /\ cartStore' = o.store
              /\ shopCarts' = o.carts
              /\ faults' = faults + o.fault
              /\ allToolCalls' = Append(allToolCalls,
                                        [tool |-> toolBlock.name, result |-> o.result])
              /\ cartId' = CaptureCartId(cartId, o.result)
              /\ checkoutUrl' = CaptureCheckoutUrl(checkoutUrl, o.result)
              /\ toolResults' = Append(toolResults, ToolResultBlock(toolBlock, o.result))
              /\ execLog' = Append(execLog,
                                   [id |-> toolBlock.id, name |-> toolBlock.name,
                                    iteration |-> iterations, index |-> toolIdx,
                                    cartIdIn |-> ctx.cartId, calls |-> Len(llmLog),
                                    emitted |-> Len(events)])
    /\ toolIdx' = toolIdx + 1
    /\ UNCHANGED <<pc, mode, messages, context, tenant, systemPrompt,
                   claudeResponse, iterations, conversationMessages, toolUseBlocks,
                   response, thrown, events, chunkPos, llmLog>>
    /\ UNCHANGED <<routeVars, toolVars, svcVars>>

\* lines 537-541: the tool results are appended as one user turn
EndTools ==
    /\ pc = "execTools"
    /\ toolIdx > Len(toolUseBlocks)
    /\ conversationMessages' =
          Append(conversationMessages, [role |-> "user", content |-> toolResults])
    /\ pc' = "callClaudeWithToolResults"
    /\ UNCHANGED <<mode, messages, context, tenant, systemPrompt, claudeResponse,
                   iterations, toolUseBlocks, toolIdx, toolResults, allToolCalls,
                   cartId, checkoutUrl, response, thrown, events, chunkPos,
                   cartStore, shopCarts, faults, llmLog, execLog>>
    /\ UNCHANGED <<routeVars, toolVars, svcVars>>

\* mutant: the follow-up call sends the caller's history only
FollowUpMessagesOriginal(conv, msgs) == MapMessages(msgs)

\* the message list of the follow-up call: conversationMessages
FollowUpMessages(conv, msgs) == conv

\* lines 543-547: the follow-up call answers
CallClaudeWithToolResultsOk ==
    /\ pc = "callClaudeWithToolResults"
    /\ llmLog' = Append(llmLog, RequestBody(FollowUpMessages(conversationMessages, messages), systemPrompt))
    /\ \E r \in Responses(Len(llmLog) + 1) : claudeResponse' = r
    /\ pc' = "loopTest"
    /\ UNCHANGED <<mode, messages, context, tenant, systemPrompt, iterations,
                   conversationMessages, toolUseBlocks, toolIdx, toolResults,
                   allToolCalls, cartId, checkoutUrl, response, thrown, events,
                   chunkPos, cartStore, shopCarts, faults, execLog>>
    /\ UNCHANGED <<routeVars, toolVars, svcVars>>

\* lines 434-437: the follow-up call is answered with a non-2xx status
CallClaudeWithToolResultsFail ==
    /\ pc = "callClaudeWithToolResults"
    /\ llmLog' = Append(llmLog, RequestBody(FollowUpMessages(conversationMessages, messages), systemPrompt))
    /\ \E err \in ClaudeErrors : Throw(err)
    /\ UNCHANGED <<mode, messages, context, tenant, systemPrompt, claudeResponse,
                   iterations, conversationMessages, toolUseBlocks, toolIdx,
                   toolResults, allToolCalls, cartId, checkoutUrl, response,
                   events, chunkPos, cartStore, shopCarts, faults, execLog>>
    /\ UNCHANGED <<routeVars, toolVars, svcVars>>

\* lines 553-558: the AgentResponse
AgentResponse(reply, calls, cid, url) ==
    IF Len(calls) > 0
    THEN [reply |-> reply, toolCalls |-> calls, cartId |-> cid, checkoutUrl |-> url]
    ELSE [reply |-> reply, cartId |-> cid, checkoutUrl |-> url]

\* lines 550-558: the loop is left, processMessage returns
Finish ==
    /\ pc = "loopTest"
    /\ ~LoopCondition(claudeResponse, iterations)
    /\ response' = AgentResponse(extractText(claudeResponse.content),
                                 allToolCalls, cartId, checkoutUrl)
    /\ pc' = IF mode = "sync" THEN "returned" ELSE "emitting"
    /\ chunkPos' = 0
    /\ UNCHANGED <<mode, messages, context, tenant, systemPrompt, claudeResponse,
                   iterations, conversationMessages, toolUseBlocks, toolIdx,
                   toolResults, allToolCalls, cartId, checkoutUrl, thrown, events,
                   cartStore, shopCarts, faults, llmLog, execLog>>
    /\ UNCHANGED <<routeVars, toolVars, svcVars>>

----------------------------------------------------------------------------
(* processMessageStream, after `await this.processMessage(messages, context)` *)

IsToolEvent(e) == e.type = "tool"
IsTextEvent(e) == e.type = "text"

ToolEvents(evs) == SelectSeq(evs, IsToolEvent)
TextEvents(evs) == SelectSeq(evs, IsTextEvent)

\* response.toolCalls, an empty list when the field is absent
ToolCallsOf(resp) == IF "toolCalls" \in DOMAIN resp THEN resp.toolCalls ELSE <<>>

Min(a, b) == IF a < b THEN a ELSE b

\* mutant: the chunk ends one character early
SliceShort(reply, i) == SubSeq(reply, i + 1, Min(i + chunkSize - 1, Len(reply)))

\* reply.slice(i, i + chunkSize), i counted from 0
Slice(reply, i) == SubSeq(reply, i + 1, Min(i + chunkSize, Len(reply)))

\* stream.writeSSE({ event: event.type, data: JSON.stringify(event.data) })
SSEFrame(event) == [event |-> event.type, data |-> JSONstringify(event.data)]

\* lines 575-579: one pass of the loop over response.toolCalls
EmitTool ==
    /\ pc = "emitting"
    /\ Len(ToolEvents(events)) < Len(ToolCallsOf(response))
    /\ events' = Append(events,
                        [type |-> "tool",
                         data |-> ToolCallsOf(response)[Len(ToolEvents(events)) + 1]])
    /\ UNCHANGED <<pc, mode, messages, context, tenant, systemPrompt,
                   claudeResponse, iterations, conversationMessages, toolUseBlocks,
                   toolIdx, toolResults, allToolCalls, cartId, checkoutUrl,
                   response, thrown, chunkPos, cartStore, shopCarts, faults,
                   llmLog, execLog>>
    /\ wire' = Append(wire, SSEFrame(events'[Len(events')]))
    /\ UNCHANGED <<httpResponse, toolVars, svcVars>>

\* lines 582-586: one pass of the chunking loop
EmitText ==
    /\ pc = "emitting"
    /\ Len(ToolEvents(events)) = Len(ToolCallsOf(response))
    /\ chunkPos < Len(response.reply)
    /\ events' = Append(events, [type |-> "text", data |-> Slice(response.reply, chunkPos)])
    /\ chunkPos' = chunkPos + chunkSize
    /\ UNCHANGED <<pc, mode, messages, context, tenant, systemPrompt,
                   claudeResponse, iterations, conversationMessages, toolUseBlocks,
                   toolIdx, toolResults, allToolCalls, cartId, checkoutUrl,
                   response, thrown, cartStore, shopCarts, faults, llmLog, execLog>>
    /\ wire' = Append(wire, SSEFrame(events'[Len(events')]))
    /\ UNCHANGED <<httpResponse, toolVars, svcVars>>

\* mutant: the done event carries the reply only
DoneEventReplyOnly(resp) == [type |-> "done", data |-> [reply |-> resp.reply]]

\* yield { type: 'done', data: response }
DoneEvent(resp) == [type |-> "done", data |-> resp]

\* line 589: the done event
EmitDone ==
    /\ pc = "emitting"
    /\ Len(ToolEvents(events)) = Len(ToolCallsOf(response))
    /\ chunkPos >= Len(response.reply)
    /\ events' = Append(events, DoneEvent(response))
    /\ pc' = "streamEnd"
    /\ UNCHANGED <<mode, messages, context, tenant, systemPrompt, claudeResponse,
                   iterations, conversationMessages, toolUseBlocks, toolIdx,
                   toolResults, allToolCalls, cartId, checkoutUrl, response,
                   thrown, chunkPos, cartStore, shopCarts, faults, llmLog, execLog>>
    /\ wire' = Append(wire, SSEFrame(events'[Len(events')]))
    /\ UNCHANGED <<httpResponse, toolVars, svcVars>>

\* yield { type: 'error', data: error.message }
ErrorEvent(msg) == [type |-> "error", data |-> msg]

\* lines 590-593: the catch block
EmitError ==
    /\ pc = "catch"
    /\ events' = Append(events, ErrorEvent(thrown))
    /\ pc' = "streamEnd"
    /\ UNCHANGED <<mode, messages, context, tenant, systemPrompt, claudeResponse,
                   iterations, conversationMessages, toolUseBlocks, toolIdx,
                   toolResults, allToolCalls, cartId, checkoutUrl, response,
                   thrown, chunkPos, cartStore, shopCarts, faults, llmLog, execLog>>
    /\ wire' = Append(wire, SSEFrame(events'[Len(events')]))
    /\ UNCHANGED <<httpResponse, toolVars, svcVars>>

\* the error text both routes answer with when the cycle fails
GenericError == <<"An error occurred. Please try again.">>

\* POST /agent: c.json(response) with the AgentResponse, or the catch block's
\* 500 response
AgentRouteRespond ==
    /\ pc \in {"returned", "thrown"}
    /\ httpResponse' =
          IF pc = "returned"
          THEN [status |-> 200, success |-> TRUE, data |-> response]
          ELSE [status |-> 500, success |-> FALSE, error |-> GenericError]
    /\ pc' = "responded"
    /\ UNCHANGED <<mode, messages, context, tenant, systemPrompt, claudeResponse,
                   iterations, conversationMessages, toolUseBlocks, toolIdx,
                   toolResults, allToolCalls, cartId, checkoutUrl, response,
                   thrown, events, chunkPos, cartStore, shopCarts, faults,
                   llmLog, execLog, wire, toolVars, svcVars>>

Next ==
    \/ Start
    \/ BuildPromptOk
    \/ BuildPromptFail
    \/ CallClaudeOk
    \/ CallClaudeFail
    \/ LoopEnter
    \/ ExecTool
    \/ EndTools
    \/ CallClaudeWithToolResultsOk
    \/ CallClaudeWithToolResultsFail
    \/ Finish
    \/ EmitTool
    \/ EmitText
    \/ EmitDone
    \/ EmitError
    \/ AgentRouteRespond

Spec == Init /\ [][Next]_vars

----------------------------------------------------------------------------
(* A conversation of one session, request by request: POST /agent and POST *)
(* /agent/stream build a ChatAgent, and with it a ToolExecutor, for every  *)
(* request; the model may ask the executor for any tool.                   *)

\* the tenant objects behind context.tenantId: what TenantService.getTenant
\* maps from the tenants table, and TenantConfig objects of types/index.ts
\* that carry shopifyCredentials
TenantSources ==
    { [row |-> r, tenant |-> getTenant(r)] : r \in TenantRows \cup {NoRow} }
    \cup { [row |-> Injected, tenant |-> tn] :
             tn \in { t \in TenantConfigs : "shopifyCredentials" \in DOMAIN t } }

ToolInit ==
    /\ pc = "idle"
    /\ mode = "sync"
    /\ messages = <<>>
    /\ context = [tenantId |-> TenantId, sessionId |-> SessionId, cartId |-> Undefined]
    /\ \E src \in TenantSources : tenant = src.tenant /\ tenantRow = src.row
    /\ systemPrompt = <<>>
    /\ claudeResponse = NoResponse
    /\ iterations = 0
    /\ conversationMessages = <<>>
    /\ toolUseBlocks = <<>>
    /\ toolIdx = 1
    /\ toolResults = <<>>
    /\ allToolCalls = <<>>
    /\ cartId = Undefined
    /\ checkoutUrl = NoUrl
    /\ response = NoResponse
    /\ thrown = <<>>
    /\ events = <<>>
    /\ chunkPos = 0
    /\ cartStore = <<>>
    /\ shopCarts = [id \in {"c0"} |-> <<Line("v0", 1)>>]
    /\ faults = 0
    /\ llmLog = <<>>
    /\ execLog = <<>>
    /\ wire = <<>>
    /\ httpResponse = NoResponse
    /\ lastExec = NoExec
    /\ prevExec = NoExec
    /\ execCount = 0
    /\ cartsCreated = 0
    /\ ServicesIdle

cycleVars ==
    <<mode, messages, systemPrompt, claudeResponse, iterations,
      conversationMessages, toolUseBlocks, toolIdx, toolResults, allToolCalls,
      checkoutUrl, response, thrown, events, chunkPos, llmLog, execLog>>

\* a request of the session arrives: createChatAgent builds a ChatAgent whose
\* constructor builds a ToolExecutor with an empty cartStore; the body carries
\* no cartId, the id of a cart the client holds, the id of a cart that has
\* expired on the platform, or the cartId of the last response
ToolNewRequest ==
    /\ pc \in {"idle", "tools"}
    /\ \E c \in {Undefined, "c0", StaleCartId, cartId} :
          /\ context' = [context EXCEPT !.cartId = c]
          /\ cartId' = c
    /\ cartStore' = <<>>
    /\ lastExec' = NoExec
    /\ prevExec' = NoExec
    /\ pc' = "tools"
    /\ UNCHANGED <<cycleVars, tenant, tenantRow, shopCarts, faults, routeVars,
                   execCount, cartsCreated, svcVars>>

\* the collaborators that may misbehave under a tool of the conversation
ToolFaults == IF faults < MaxFaults THEN {"upstream", "lookup", "rag"} ELSE {}

\* the record of one execute call
ExecRecord(name, input, ctx, o) ==
    [name |-> name, input |-> input, ctx |-> ctx,
     known |-> getCartId(cartStore, ctx), storeBefore |-> cartStore,
     createdBefore |-> cartsCreated, result |-> o.result, calls |-> o.calls,
     fault |-> o.fault]

\* the executor runs one tool for the model, under the request's context or
\* under the context carrying the running cartId of processMessage
ToolExecute ==
    /\ pc = "tools"
    /\ execCount < MaxToolCalls
    /\ \E req \in ToolRequests, ctx \in {context, ExecContext(context, cartId)} :
         \E o \in execute(req[1], req[2], ctx, cartStore, shopCarts, tenant, ToolFaults) :
            /\ cartStore' = o.store
            /\ shopCarts' = o.carts
            /\ faults' = faults + o.fault
            /\ cartId' = IF "success" \in DOMAIN o.result
                         THEN CaptureCartId(cartId, o.result)
                         ELSE cartId
            /\ prevExec' = lastExec
            /\ lastExec' = ExecRecord(req[1], req[2], ctx, o)
            /\ cartsCreated' = cartsCreated
                  + (IF "success" \in DOMAIN o.result /\ o.result.success
                        /\ includes(o.calls, "storefront.createCart")
                     THEN 1 ELSE 0)
    /\ execCount' = execCount + 1
    /\ UNCHANGED <<pc, cycleVars, context, tenant, tenantRow, routeVars, svcVars>>

ToolNext ==
    \/ ToolNewRequest
    \/ ToolExecute

ToolSpec == ToolInit /\ [][ToolNext]_vars

----------------------------------------------------------------------------
(* TenantService (tenant-service.ts): the cache of one TenantService under  *)
(* getTenant calls that may overlap at the await of the store query, while  *)
(* the clock runs.                                                          *)

\* const TENANT_CACHE_TTL_MS = 5 * 60 * 1000, in ticks of 150 s
TENANT_CACHE_TTL_MS == 2

\* the clock stops here
MaxTime == 3

\* getTenant calls that may await the store at the same time
MaxPending == 2

\* the agent of Spec and ToolSpec is not running
AgentIdle ==
    /\ pc = "service"
    /\ mode = "sync"
    /\ messages = <<>>
    /\ context = [tenantId |-> TenantId, sessionId |-> SessionId, cartId |-> Undefined]
    /\ tenant = NoTenant
    /\ systemPrompt = <<>>
    /\ claudeResponse = NoResponse
    /\ iterations = 0
    /\ conversationMessages = <<>>
    /\ toolUseBlocks = <<>>
    /\ toolIdx = 1
    /\ toolResults = <<>>
    /\ allToolCalls = <<>>
    /\ cartId = Undefined
    /\ checkoutUrl = NoUrl
    /\ response = NoResponse
    /\ thrown = <<>>
    /\ events = <<>>
    /\ chunkPos = 0
    /\ cartStore = <<>>
    /\ shopCarts = <<>>
    /\ faults = 0
    /\ llmLog = <<>>
    /\ execLog = <<>>
    /\ wire = <<>>
    /\ httpResponse = NoResponse
    /\ tenantRow = NoRow
    /\ lastExec = NoExec
    /\ prevExec = NoExec
    /\ execCount = 0
    /\ cartsCreated = 0

agentVars ==
    <<pc, cycleVars, context, tenant, cartId, cartStore, shopCarts, faults,
      routeVars, toolVars>>

\* an id the tenants table holds no row for, and an id of blanks
AbsentId == <<"t", "2">>
BlankId == <<" ">>

ServiceIds == {TenantId, AbsentId, BlankId}

\* the tenants table: the row of the id, if any
TenantsTable(id) ==
    IF id = TenantId
    THEN [shopify_store_url |-> "shop.example", shopify_storefront_token |-> "pub",
          shopify_admin_token |-> "adm", system_prompt |-> "custom"]
    ELSE NoRow

\* what .single() resolves to: { data, error }
StoreData(row) == [data |-> row, error |-> NoError]
StoreError(code, message) == [data |-> NoRow, error |-> [code |-> code, message |-> message]]

\* the answers of the store to the query for the id: the row, PGRST116 when
\* there is none, or a failure of the store
StoreAnswers(id) ==
    { IF TenantsTable(id) = NoRow
      THEN StoreError("PGRST116", "no rows")
      ELSE StoreData(TenantsTable(id)),
      StoreError("08006", "connection refused") }

\* this.cache.get(tenantId)
NoEntry == [noentry |-> TRUE]

cacheGet(c, id) == IF id \in DOMAIN c THEN c[id] ELSE NoEntry

\* this.cache.set(tenantId, entry)
cacheSet(c, id, entry) ==
    [k \in DOMAIN c \cup {id} |-> IF k = id THEN entry ELSE c[k]]

\* mutant: an entry is still served at its expiry time
CacheHitLate(entry, t) == entry # NoEntry /\ entry.expiresAt >= t

\* cached && cached.expiresAt > Date.now()
CacheHit(entry, t) == entry # NoEntry /\ entry.expiresAt > t

\* mutant: the absence of the row is cached with no lifetime
NegativeEntryExpired(t) == [tenant |-> NoTenant, expiresAt |-> t]

\* { tenant: null, expiresAt: Date.now() + this.cacheTtl }
NegativeEntry(t) == [tenant |-> NoTenant, expiresAt |-> t + TENANT_CACHE_TTL_MS]

\* { tenant, expiresAt: Date.now() + this.cacheTtl }
PositiveEntry(tn, t) == [tenant |-> tn, expiresAt |-> t + TENANT_CACHE_TTL_MS]

\* mutant: every store error is taken for the missing row
AnyErrorIsNoRow(error) == TRUE

\* error.code === 'PGRST116'
IsNoRow(error) == error.code = "PGRST116"

\* the record of a completed getTenant call
GetRecord(id, startedAt, entryBefore, entryAtFinish, queried, sequential, result) ==
    [id |-> id, startedAt |-> startedAt, finishedAt |-> now,
     entryBefore |-> entryBefore, entryAtFinish |-> entryAtFinish,
     queried |-> queried, sequential |-> sequential, result |-> result]

\* a call completes: every call still awaiting the store has been overtaken
Complete(rec, stillPending) ==
    /\ prevGet' = lastGet
    /\ lastGet' = rec
    /\ pending' = { [p EXCEPT !.overtaken = TRUE] : p \in stillPending }

TenantInit ==
    /\ AgentIdle
    /\ ServicesIdle

\* Date.now() advances
Tick ==
    /\ pc = "service"
    /\ now < MaxTime
    /\ now' = now + 1
    /\ UNCHANGED <<agentVars, auxVars, cache, pending, lastGet, prevGet, gatewayVars>>

\* getTenant(id) up to its first await: null for a blank id, the cached
\* tenant on a hit, else the query to the store is issued
GetTenantStart ==
    /\ pc = "service"
    /\ \E id \in ServiceIds :
          LET entry == cacheGet(cache, id)
          IN  IF Len(id) = 0 \/ Len(trim(id)) = 0
              THEN Complete(GetRecord(id, now, entry, entry, FALSE, TRUE, NoTenant), pending)
              ELSE IF CacheHit(entry, now)
              THEN Complete(GetRecord(id, now, entry, entry, FALSE, TRUE, entry.tenant),
                            pending)
              ELSE /\ Cardinality(pending) < MaxPending
                   /\ \E slot \in 1..MaxPending :
                         /\ \A p \in pending : p.slot # slot
                         /\ \A k \in 1..(slot - 1) : \E p \in pending : p.slot = k
                         /\ pending' = pending \cup
                               {[slot |-> slot, id |-> id, startedAt |-> now,
                                 entryBefore |-> entry, overtaken |-> FALSE]}
                   /\ UNCHANGED <<lastGet, prevGet>>
    /\ UNCHANGED <<agentVars, auxVars, cache, now, gatewayVars>>

\* the store answers a pending query and getTenant runs to its end: the
\* missing row is cached and null returned, another error is thrown, the row
\* is mapped, cached and returned
GetTenantFinish ==
    /\ pc = "service"
    /\ \E p \in pending : \E answer \in StoreAnswers(p.id) :
          LET rest == pending \ {p}
              entry == cacheGet(cache, p.id)
              rec(result) == GetRecord(p.id, p.startedAt, p.entryBefore, entry, TRUE,
                                       ~p.overtaken, result)
          IN  IF answer.error # NoError
              THEN IF IsNoRow(answer.error)
                   THEN /\ cache' = cacheSet(cache, p.id, NegativeEntry(now))
                        /\ Complete(rec(NoTenant), rest)
                   ELSE /\ cache' = cache
                        /\ Complete(rec(Thrown(<<"Failed to fetch tenant: ",
                                                 answer.error.message>>)), rest)
              ELSE /\ cache' = cacheSet(cache, p.id,
                                        PositiveEntry(getTenant(answer.data), now))
                   /\ Complete(rec(getTenant(answer.data)), rest)
    /\ UNCHANGED <<agentVars, auxVars, now, gatewayVars>>

TenantNext ==
    \/ Tick
    \/ GetTenantStart
    \/ GetTenantFinish

TenantSpec == TenantInit /\ [][TenantNext]_vars

----------------------------------------------------------------------------
(* The gateways: EmbeddingsService.embed through its fetchWithRetry        *)
(* (embeddings-service.ts) and ClaudibleClient.fetchWithRetry               *)
(* (claudible-client.ts), one call against a provider that may answer each  *)
(* fetch with any status or not at all.                                     *)

\* const MAX_RETRIES = 3, const INITIAL_RETRY_DELAY_MS = 1000, in both files
MAX_RETRIES == 3
INITIAL_RETRY_DELAY_MS == 1000

\* String.prototype.includes
includesText(str, needle) ==
    \E i \in 1..(Len(str) - Len(needle) + 1) :
        SubSeq(str, i, i + Len(needle) - 1) = needle

\* `${response.status}`
StatusText(status) ==
    CASE status = 200 -> <<"2", "0", "0">>
      [] status = 429 -> <<"4", "2", "9">>
      [] status = 500 -> <<"5", "0", "0">>
      [] status = 503 -> <<"5", "0", "3">>

\* parseInt(retryAfter, 10) of a header of decimal digits
DigitValue(ch) ==
    CASE ch = "0" -> 0 [] ch = "1" -> 1 [] ch = "2" -> 2 [] ch = "3" -> 3 [] ch = "4" -> 4
      [] ch = "5" -> 5 [] ch = "6" -> 6 [] ch = "7" -> 7 [] ch = "8" -> 8 [] ch = "9" -> 9

RECURSIVE parseInt(_)
parseInt(str) ==
    IF Len(str) = 0 THEN 0
    ELSE 10 * parseInt(SubSeq(str, 1, Len(str) - 1)) + DigitValue(str[Len(str)])

\* a response of the provider: status, Retry-After header, error text
\* (detail of the JSON body, or the body text), embedding
HttpResponse(status, retryAfter, text) ==
    [status |-> status, retryAfter |-> retryAfter, text |-> text,
     data |-> << [embedding |-> "vecA", index |-> 0] >>]

\* fetch rejects: no response
NetworkError(message) == [network |-> message]

IsNetworkError(r) == "network" \in DOMAIN r

\* what the provider may do with one fetch
ProviderAnswers ==
    { HttpResponse(200, Undefined, <<>>),
      HttpResponse(429, Undefined, <<"s", "l", "o", "w">>),
      HttpResponse(429, <<"2">>, <<"s", "l", "o", "w">>),
      HttpResponse(500, Undefined, <<"b", "o", "o", "m">>),
      HttpResponse(500, Undefined, <<"q", "u", "o", "t", "a", " ", "4", "2", "9">>),
      HttpResponse(503, Undefined, <<"p", "r", "e", "f", "e", "t", "c", "h">>),
      NetworkError(<<"f", "e", "t", "c", "h", " ", "f", "a", "i", "l", "e", "d">>),
      NetworkError(<<"ECONNRESET">>) }

\* response.ok
ok(r) == r.status >= 200 /\ r.status <= 299

\* retryAfter ? parseInt(retryAfter, 10) * 1000
\*            : INITIAL_RETRY_DELAY_MS * Math.pow(2, attempt)
delayMs(r, att) ==
    IF r.retryAfter # Undefined
    THEN parseInt(r.retryAfter) * 1000
    ELSE INITIAL_RETRY_DELAY_MS * 2^att

\* `Voyage AI Embeddings API error ${response.status}: ${errorBody.detail}`
VoyageError(r) ==
    <<"Voyage AI Embeddings API error ">> \o StatusText(r.status) \o <<": ">> \o r.text

\* `Claudible API error ${response.status}: ${errorText}`
ClaudibleError(r) ==
    <<"Claudible API error ">> \o StatusText(r.status) \o <<": ">> \o r.text

\* how one iteration of the for loop ends: the loop goes on (after the
\* sleeps), the function throws, or it returns
Continue(err, sleeps) == [end |-> "continue", lastError |-> err, sleeps |-> sleeps]
ThrowError(err) == [end |-> "throw", lastError |-> err, sleeps |-> <<>>]
Return(value) == [end |-> "return", value |-> value, sleeps |-> <<>>]

\* lastError.message.includes('429') || lastError.message.includes('fetch')
isRetryable(message) ==
    \/ includesText(message, <<"4", "2", "9">>)
    \/ includesText(message, <<"f", "e", "t", "c", "h">>)

\* the catch block of EmbeddingsService.fetchWithRetry
EmbeddingsCatch(message, att) ==
    IF ~isRetryable(message) \/ att >= MAX_RETRIES - 1
    THEN ThrowError(message)
    ELSE Continue(message, <<INITIAL_RETRY_DELAY_MS * 2^att>>)

\* one iteration of the loop of EmbeddingsService.fetchWithRetry on answer r
EmbeddingsIteration(att, err, r) ==
    IF IsNetworkError(r) THEN EmbeddingsCatch(r.network, att)
    ELSE IF r.status = 429 /\ att < MAX_RETRIES - 1
    THEN Continue(err, <<delayMs(r, att)>>)
    ELSE IF ~ok(r) THEN EmbeddingsCatch(VoyageError(r), att)
    ELSE Return(r.data)

\* the catch block of ClaudibleClient.fetchWithRetry
ClaudibleCatch(message, att) ==
    IF ~includesText(message, <<"4", "2", "9">>)
    THEN ThrowError(message)
    ELSE Continue(message, IF att < MAX_RETRIES - 1
                           THEN <<INITIAL_RETRY_DELAY_MS * 2^att>>
                           ELSE <<>>)

\* one iteration of the loop of ClaudibleClient.fetchWithRetry on answer r
ClaudibleIteration(att, err, r) ==
    IF IsNetworkError(r) THEN ClaudibleCatch(r.network, att)
    ELSE IF r.status = 429 /\ att < MAX_RETRIES - 1
    THEN Continue(err, <<delayMs(r, att)>>)
    ELSE IF ~ok(r) /\ r.status # 429 THEN ClaudibleCatch(ClaudibleError(r), att)
    ELSE IF ok(r) THEN Return(r)
    ELSE Continue(err, <<>>)

\* throw lastError ?? new Error('Max retries exceeded')
AfterLoop(err) == IF err = NoError THEN <<"Max retries exceeded">> ELSE err

\* the texts handed to embed
EmbedTexts == { <<"h", "i">>, <<" ", " ">>, <<>> }

GatewayInit ==
    /\ AgentIdle
    /\ ServicesIdle

\* embed(text): the validation, then fetchWithRetry begins
EmbedCall ==
    /\ pc = "service"
    /\ gateway = "none"
    /\ \E text \in EmbedTexts :
          IF Len(text) = 0 \/ Len(trim(text)) = 0
          THEN /\ gateway' = "embeddings"
               /\ outcome' = Thrown(<<"Text cannot be empty">>)
          ELSE /\ gateway' = "embeddings"
               /\ outcome' = NoOutcome
    /\ UNCHANGED <<agentVars, auxVars, tenantVars, attempt, lastError, upstream, delays>>

\* chat(messages): fetchWithRetry begins
ClaudibleCall ==
    /\ pc = "service"
    /\ gateway = "none"
    /\ gateway' = "claudible"
    /\ UNCHANGED <<agentVars, auxVars, tenantVars, attempt, lastError, upstream, delays, outcome>>

\* the effect of one iteration on the state of the call
Iterate(it) ==
    /\ delays' = delays \o it.sleeps
    /\ CASE it.end = "continue" ->
               /\ attempt' = attempt + 1
               /\ lastError' = it.lastError
               /\ outcome' = outcome
         [] it.end = "throw" ->
               /\ lastError' = it.lastError
               /\ outcome' = Thrown(it.lastError)
               /\ attempt' = attempt
         [] it.end = "return" ->
               /\ outcome' = [returned |->
                                IF gateway = "embeddings"
                                THEN it.value[1].embedding
                                ELSE it.value]
               /\ UNCHANGED <<attempt, lastError>>

\* one iteration of EmbeddingsService.fetchWithRetry: the fetch, the
\* provider's answer, and what the loop body does with it
EmbeddingsFetch ==
    /\ pc = "service"
    /\ gateway = "embeddings" /\ outcome = NoOutcome
    /\ attempt < MAX_RETRIES
    /\ \E r \in ProviderAnswers :
          /\ upstream' = Append(upstream, r)
          /\ Iterate(EmbeddingsIteration(attempt, lastError, r))
    /\ UNCHANGED <<agentVars, auxVars, tenantVars, gateway>>

\* one iteration of ClaudibleClient.fetchWithRetry
ClaudibleFetch ==
    /\ pc = "service"
    /\ gateway = "claudible" /\ outcome = NoOutcome
    /\ attempt < MAX_RETRIES
    /\ \E r \in ProviderAnswers :
          /\ upstream' = Append(upstream, r)
          /\ Iterate(ClaudibleIteration(attempt, lastError, r))
    /\ UNCHANGED <<agentVars, auxVars, tenantVars, gateway>>

\* the loop is left without a return: the throw after the loop
RetriesExhausted ==
    /\ pc = "service"
    /\ gateway # "none" /\ outcome = NoOutcome
    /\ attempt >= MAX_RETRIES
    /\ outcome' = Thrown(AfterLoop(lastError))
    /\ UNCHANGED <<agentVars, auxVars, tenantVars, gateway, attempt, lastError, upstream, delays>>

GatewayNext ==
    \/ EmbedCall
    \/ ClaudibleCall
    \/ EmbeddingsFetch
    \/ ClaudibleFetch
    \/ RetriesExhausted

GatewaySpec == GatewayInit /\ [][GatewayNext]_vars

----------------------------------------------------------------------------
(* EmbeddingsService.embedBatch (embeddings-service.ts): one call, chunk by *)
(* chunk, against a provider that lists the index-tagged vectors of a chunk *)
(* in any order.                                                            *)

\* const MAX_BATCH_SIZE = 128, scaled to the lists of the model
MAX_BATCH_SIZE == 2

\* the longest list handed to embedBatch
MaxTexts == 3

\* the texts a list may hold: plain, padded, blank
BatchTexts == { <<"a">>, <<"b">>, <<" ", "c">>, <<" ">> }

RECURSIVE SeqsUpTo(_, _)
SeqsUpTo(S, n) ==
    IF n = 0 THEN {<<>>}
    ELSE SeqsUpTo(S, n - 1)
         \cup { Append(q, x) : q \in { r \in SeqsUpTo(S, n - 1) : Len(r) = n - 1 }, x \in S }

BatchInputs == SeqsUpTo(BatchTexts, MaxTexts)

\* the vector the provider computes for a text
VectorOf(text) == <<"vec", text>>

\* texts.map((t, i) => ({ text: t?.trim() ?? '', index: i }))
validTexts(ts) == [i \in 1..Len(ts) |-> [text |-> trim(ts[i]), index |-> i - 1]]

\* Array.prototype.filter with t.text.length > 0
RECURSIVE filterNonEmpty(_)
filterNonEmpty(vs) ==
    IF Len(vs) = 0 THEN <<>>
    ELSE (IF Len(Head(vs).text) > 0 THEN <<Head(vs)>> ELSE <<>>) \o filterNonEmpty(Tail(vs))

nonEmpty(ts) == filterNonEmpty(validTexts(ts))

\* nonEmpty.slice(i, i + MAX_BATCH_SIZE)
chunkAt(ts, i) == SubSeq(nonEmpty(ts), i + 1, Min(i + MAX_BATCH_SIZE, Len(nonEmpty(ts))))

\* chunk.map((t) => t.text)
chunkTexts(chunk) == [k \in 1..Len(chunk) |-> chunk[k].text]

\* response.data of the provider for the chunk: one vector per text, tagged
\* with the position of its text in the request, listed in the order perm
ResponseData(cts, perm) ==
    [pos \in 1..Len(cts) |->
        [embedding |-> VectorOf(cts[perm[pos]]), index |-> perm[pos] - 1]]

\* response.data.forEach((item, responseIndex) =>
\*   results.push({ embedding: item.embedding, index: chunk[responseIndex].index }))
pushResults(chunk, data) ==
    [pos \in 1..Len(data) |->
        [embedding |-> data[pos].embedding, index |-> chunk[pos].index]]

\* results.sort((a, b) => a.index - b.index)
RECURSIVE sortByIndex(_)
sortByIndex(rs) ==
    IF Len(rs) = 0 THEN <<>>
    ELSE LET m == CHOOSE k \in 1..Len(rs) :
                      \A j \in 1..Len(rs) :
                          rs[k].index < rs[j].index \/ (rs[k].index = rs[j].index /\ k <= j)
         IN  <<rs[m]>> \o sortByIndex(SubSeq(rs, 1, m - 1) \o SubSeq(rs, m + 1, Len(rs)))

EmbedBatchInit ==
    /\ AgentIdle
    /\ ServicesIdle

othersThanBatch == <<agentVars, tenantVars, gatewayVars, ragVars, execVars, rateVars, streamVars, requestVars>>

\* embedBatch(texts) up to the chunk loop
EmbedBatchCall ==
    /\ pc = "service"
    /\ batchPc = "idle"
    /\ \E ts \in BatchInputs :
          /\ texts' = ts
          /\ IF Len(ts) = 0
             THEN embeddings' = [returned |-> <<>>] /\ batchPc' = "done"
             ELSE IF Len(nonEmpty(ts)) = 0
             THEN embeddings' = Thrown(<<"All texts are empty">>) /\ batchPc' = "done"
             ELSE embeddings' = embeddings /\ batchPc' = "chunks"
    /\ UNCHANGED <<othersThanBatch, results, chunkI, sentChunks>>

\* one iteration of the chunk loop: the chunk is sent and the vectors of the
\* response are pushed
EmbedBatchChunk ==
    /\ pc = "service"
    /\ batchPc = "chunks"
    /\ chunkI < Len(nonEmpty(texts))
    /\ LET chunk == chunkAt(texts, chunkI)
       IN  /\ sentChunks' = Append(sentChunks, chunkTexts(chunk))
           /\ \E perm \in Permutations(1..Len(chunk)) :
                 results' = results \o pushResults(chunk, ResponseData(chunkTexts(chunk), perm))
    /\ chunkI' = chunkI + MAX_BATCH_SIZE
    /\ UNCHANGED <<othersThanBatch, texts, embeddings, batchPc>>

\* fetchWithRetry throws for a chunk
EmbedBatchChunkFail ==
    /\ pc = "service"
    /\ batchPc = "chunks"
    /\ chunkI < Len(nonEmpty(texts))
    /\ sentChunks' = Append(sentChunks, chunkTexts(chunkAt(texts, chunkI)))
    /\ embeddings' = Thrown(<<"Voyage AI Embeddings API error ", "5", "0", "0", ": ", "b", "o", "o", "m">>)
    /\ batchPc' = "done"
    /\ UNCHANGED <<othersThanBatch, texts, results, chunkI>>

\* the loop is left: results are sorted by index and the embeddings returned
EmbedBatchReturn ==
    /\ pc = "service"
    /\ batchPc = "chunks"
    /\ chunkI >= Len(nonEmpty(texts))
    /\ embeddings' = [returned |->
                        [k \in 1..Len(results) |-> sortByIndex(results)[k].embedding]]
    /\ batchPc' = "done"
    /\ UNCHANGED <<othersThanBatch, texts, results, chunkI, sentChunks>>

EmbedBatchNext ==
    \/ EmbedBatchCall
    \/ EmbedBatchChunk
    \/ EmbedBatchChunkFail
    \/ EmbedBatchReturn

EmbedBatchSpec == EmbedBatchInit /\ [][EmbedBatchNext]_vars

----------------------------------------------------------------------------
(* RagService (rag-service.ts): searchProducts, searchFaqs and search over  *)
(* the rows the store's search functions answer with.  Similarities are in  *)
(* hundredths.                                                              *)

\* const DEFAULT_PRODUCT_LIMIT = 5, const DEFAULT_FAQ_LIMIT = 3,
\* const DEFAULT_SIMILARITY_THRESHOLD = 0.25
DEFAULT_PRODUCT_LIMIT == 5
DEFAULT_FAQ_LIMIT == 3
DEFAULT_SIMILARITY_THRESHOLD == 25

\* the longest row list the store answers with
MaxRows == 3

\* the similarities a row may carry
Similarities == {10, 25, 40}

\* the RagConfig objects the service is built with
RagConfigs ==
    { [productLimit |-> DEFAULT_PRODUCT_LIMIT, faqLimit |-> DEFAULT_FAQ_LIMIT,
       similarityThreshold |-> DEFAULT_SIMILARITY_THRESHOLD],
      [productLimit |-> 2, faqLimit |-> 1, similarityThreshold |-> 40] }

\* rows of search_products / search_faqs with the given similarities
ProductRows(sims) ==
    [k \in 1..Len(sims) |->
        [id |-> k, title |-> "Shoe", image_url |-> "img", similarity |-> sims[k]]]

FaqRows(sims) ==
    [k \in 1..Len(sims) |->
        [question |-> k, answer |-> "3 days", similarity |-> sims[k]]]

\* the lists of similarities the store may answer with under p_limit
RowSims(limit) == { q \in SeqsUpTo(Similarities, MaxRows) : Len(q) <= limit }

\* mutant: a row at the floor is dropped
meetsThresholdStrict(row, config) == row.similarity > config.similarityThreshold

\* p.similarity >= this.config.similarityThreshold
meetsThreshold(row, config) == row.similarity >= config.similarityThreshold

\* Array.prototype.filter with the threshold
RECURSIVE filterByThreshold(_, _)
filterByThreshold(rows, config) ==
    IF Len(rows) = 0 THEN <<>>
    ELSE (IF meetsThreshold(Head(rows), config) THEN <<Head(rows)>> ELSE <<>>)
         \o filterByThreshold(Tail(rows), config)

\* the .map of searchProducts / searchFaqs to the result types
ProductResult(p) ==
    [id |-> p.id, title |-> p.title, imageUrl |-> p.image_url, similarity |-> p.similarity]

FaqResult(f) == [question |-> f.question, answer |-> f.answer, similarity |-> f.similarity]

ProductResults(rows, config) ==
    [k \in 1..Len(filterByThreshold(rows, config)) |->
        ProductResult(filterByThreshold(rows, config)[k])]

FaqResults(rows, config) ==
    [k \in 1..Len(filterByThreshold(rows, config)) |->
        FaqResult(filterByThreshold(rows, config)[k])]

\* this.supabase.rpc(fn, { query_embedding, p_tenant_id, p_limit })
Rpc(fn, tenantId, limit) == [fn |-> fn, p_tenant_id |-> tenantId, p_limit |-> limit]

\* the optional parameter `limit`: absent, or a number
NoLimit == <<>>
Limits == {NoLimit, <<1>>, <<2>>}

\* limit ?? configured
OrElse(limit, configured) == IF limit = NoLimit THEN configured ELSE limit[1]

RagQueries == { <<"s", "h", "o", "e">>, <<" ">> }

RagCall(method, tenantId, query, limit, config) ==
    [method |-> method, tenantId |-> tenantId, query |-> query, limit |-> limit,
     config |-> config]

RagInit ==
    /\ AgentIdle
    /\ ServicesIdle

othersThanRag == <<agentVars, tenantVars, gatewayVars, batchVars, execVars, rateVars, streamVars, requestVars>>

\* RagService.searchProducts(tenantId, query, limit)
RagServiceSearchProducts ==
    /\ pc = "service"
    /\ ragCall = NoOutcome
    /\ \E tid \in {TenantId, AbsentId}, query \in RagQueries, limit \in Limits,
          config \in RagConfigs :
          /\ ragCall' = RagCall("searchProducts", tid, query, limit, config)
          /\ IF Len(query) = 0 \/ Len(trim(query)) = 0
             THEN ragResult' = [returned |-> <<>>] /\ rpcLog' = rpcLog
             ELSE /\ rpcLog' = <<Rpc("search_products", tid, OrElse(limit, config.productLimit))>>
                  /\ \/ \E sims \in RowSims(OrElse(limit, config.productLimit)) :
                           ragResult' = [returned |-> ProductResults(ProductRows(sims), config),
                                         rows |-> ProductRows(sims)]
                     \/ ragResult' = Thrown(<<"Product search failed: ", "timeout">>)
    /\ UNCHANGED othersThanRag

\* RagService.searchFaqs(tenantId, query, limit)
RagServiceSearchFaqs ==
    /\ pc = "service"
    /\ ragCall = NoOutcome
    /\ \E tid \in {TenantId, AbsentId}, query \in RagQueries, limit \in Limits,
          config \in RagConfigs :
          /\ ragCall' = RagCall("searchFaqs", tid, query, limit, config)
          /\ IF Len(query) = 0 \/ Len(trim(query)) = 0
             THEN ragResult' = [returned |-> <<>>] /\ rpcLog' = rpcLog
             ELSE /\ rpcLog' = <<Rpc("search_faqs", tid, OrElse(limit, config.faqLimit))>>
                  /\ \/ \E sims \in RowSims(OrElse(limit, config.faqLimit)) :
                           ragResult' = [returned |-> FaqResults(FaqRows(sims), config),
                                         rows |-> FaqRows(sims)]
                     \/ ragResult' = Thrown(<<"FAQ search failed: ", "timeout">>)
    /\ UNCHANGED othersThanRag

\* RagService.search(tenantId, query): both lookups, then both filters
RagServiceSearch ==
    /\ pc = "service"
    /\ ragCall = NoOutcome
    /\ \E tid \in {TenantId, AbsentId}, query \in RagQueries, config \in RagConfigs :
          /\ ragCall' = RagCall("search", tid, query, NoLimit, config)
          /\ IF Len(query) = 0 \/ Len(trim(query)) = 0
             THEN /\ ragResult' = [returned |-> [products |-> <<>>, faqs |-> <<>>]]
                  /\ rpcLog' = rpcLog
             ELSE /\ rpcLog' = <<Rpc("search_products", tid, config.productLimit),
                                  Rpc("search_faqs", tid, config.faqLimit)>>
                  /\ \/ \E psims \in RowSims(config.productLimit),
                           fsims \in RowSims(config.faqLimit) :
                           ragResult' =
                              [returned |->
                                 [products |-> ProductResults(ProductRows(psims), config),
                                  faqs |-> FaqResults(FaqRows(fsims), config)],
                               rows |-> [products |-> ProductRows(psims),
                                         faqs |-> FaqRows(fsims)]]
                     \/ ragResult' = Thrown(<<"Product search failed: ", "timeout">>)
                     \/ ragResult' = Thrown(<<"FAQ search failed: ", "timeout">>)
    /\ UNCHANGED othersThanRag

RagNext ==
    \/ RagServiceSearchProducts
    \/ RagServiceSearchFaqs
    \/ RagServiceSearch

RagSpec == RagInit /\ [][RagNext]_vars

----------------------------------------------------------------------------
(* Properties *)

\* processMessage has returned its AgentResponse
Returned == response # NoResponse

\* the assistant turn appended by iteration it
AssistantTurn(it) == conversationMessages[Len(messages) + 2 * it - 1]

\* the tool-result turn appended by iteration it
ToolResultTurn(it) == conversationMessages[Len(messages) + 2 * it]

NumToolUse(content) == Len(extractToolUse(content))

ToolIdsOf(content) ==
    { extractToolUse(content)[k].id : k \in 1..NumToolUse(content) }

ExecutedIds == { execLog[k].id : k \in 1..Len(execLog) }

\* every response of the cycle, the last one included, asked for tools
EveryResponseRequestedTool ==
    /\ claudeResponse.stop_reason = "tool_use"
    /\ NumToolUse(claudeResponse.content) >= 1
    /\ \A it \in 1..iterations : NumToolUse(AssistantTurn(it).content) >= 1

\* ... and for exactly one tool each
EveryResponseOneTool ==
    /\ claudeResponse.stop_reason = "tool_use"
    /\ NumToolUse(claudeResponse.content) = 1
    /\ \A it \in 1..iterations : NumToolUse(AssistantTurn(it).content) = 1

\* C1 as stated: when the model asks for one tool in every response, the
\* cycle returns after exactly MAX_TOOL_ITERATIONS LLM round-trips with
\* MAX_TOOL_ITERATIONS tool calls.
C1_CapManyLlmCalls ==
    (Returned /\ EveryResponseOneTool) =>
        /\ Len(llmLog) = MAX_TOOL_ITERATIONS
        /\ Len(ToolCallsOf(response)) = MAX_TOOL_ITERATIONS

\* C1 amended: the cycle never makes more than MAX_TOOL_ITERATIONS + 1 LLM
\* calls nor more than MAX_TOOL_ITERATIONS iterations, and when the model asks
\* for one tool in every response it returns (does not throw) after exactly
\* MAX_TOOL_ITERATIONS + 1 LLM calls with MAX_TOOL_ITERATIONS tool calls.
C1_CapPlusOneLlmCalls ==
    /\ Len(llmLog) <= MAX_TOOL_ITERATIONS + 1
    /\ iterations <= MAX_TOOL_ITERATIONS
    /\ (Returned /\ EveryResponseOneTool) =>
          /\ thrown = <<>>
          /\ iterations = MAX_TOOL_ITERATIONS
          /\ Len(llmLog) = MAX_TOOL_ITERATIONS + 1
          /\ Len(ToolCallsOf(response)) = MAX_TOOL_ITERATIONS

C1_Witness == pc = "returned" /\ EveryResponseOneTool

\* C2 as stated: when every response asks for tools, the cycle performs
\* exactly MAX_TOOL_ITERATIONS tool rounds and replies with the text of the
\* MAX_TOOL_ITERATIONS-th response.
C2_ReplyOfFifthResponse ==
    (Returned /\ EveryResponseRequestedTool) =>
        /\ iterations = MAX_TOOL_ITERATIONS
        /\ response.reply = ScriptText(MAX_TOOL_ITERATIONS)
        /\ ToolIdsOf(claudeResponse.content) \cap ExecutedIds = {}

\* C2 amended: when every response asks for tools, the cycle performs exactly
\* MAX_TOOL_ITERATIONS tool rounds, executes every invocation of the first
\* MAX_TOOL_ITERATIONS responses and none of the response received after the
\* last round, and replies with the text of that last received response.
C2_ReplyOfLastResponse ==
    (Returned /\ EveryResponseRequestedTool) =>
        /\ iterations = MAX_TOOL_ITERATIONS
        /\ Len(llmLog) = MAX_TOOL_ITERATIONS + 1
        /\ response.reply = ScriptText(MAX_TOOL_ITERATIONS + 1)
        /\ \A it \in 1..iterations : ToolIdsOf(AssistantTurn(it).content) \subseteq ExecutedIds
        /\ ToolIdsOf(claudeResponse.content) \cap ExecutedIds = {}

C2_Witness ==
    /\ Returned
    /\ EveryResponseRequestedTool
    /\ \E it \in 1..iterations : NumToolUse(AssistantTurn(it).content) = 2

\* C3: below the iteration cap the cycle ends exactly when the latest response
\* carries no tool_use block: a response that carries tool_use blocks is never
\* the final one, and a response without tool_use blocks never starts an
\* iteration.
C3_BranchOnToolBlocks ==
    /\ (Returned /\ iterations < MAX_TOOL_ITERATIONS) =>
          NumToolUse(claudeResponse.content) = 0
    /\ pc = "execTools" => Len(toolUseBlocks) > 0

HasField(result, f) == "data" \in DOMAIN result /\ f \in DOMAIN result.data

\* the value of field f in the last tool result that holds one, else default
RECURSIVE LastField(_, _, _)
LastField(f, default, calls) ==
    IF Len(calls) = 0 THEN default
    ELSE IF HasField(calls[Len(calls)].result, f)
         THEN calls[Len(calls)].result.data[f]
         ELSE LastField(f, default, SubSeq(calls, 1, Len(calls) - 1))

\* C4: the invocations of one model turn are executed one after the other in
\* the order of the turn's tool_use blocks, each before the next starts, a
\* turn is finished before the next turn's invocations start, and every
\* execution receives the cart id of the last earlier result that held one.
C4_SequentialInOrder ==
    /\ Len(execLog) = Len(allToolCalls)
    /\ \A k \in 1..Len(execLog) :
         LET e == execLog[k]
             blocks == extractToolUse(AssistantTurn(e.iteration).content)
         IN  /\ e.index <= Len(blocks)
             /\ e.id = blocks[e.index].id
             /\ e.name = blocks[e.index].name
             /\ allToolCalls[k].tool = e.name
             /\ e.cartIdIn = LastField("cartId", context.cartId,
                                       SubSeq(allToolCalls, 1, k - 1))
             /\ k = 1 => e.index = 1
             /\ k > 1 =>
                  LET p == execLog[k - 1]
                  IN  \/ e.iteration = p.iteration /\ e.index = p.index + 1
                      \/ /\ e.iteration > p.iteration
                         /\ e.index = 1
                         /\ p.index = NumToolUse(AssistantTurn(p.iteration).content)

C4_Witness ==
    \E k \in 1..Len(execLog) :
        /\ execLog[k].index = 2
        /\ execLog[k].name = "get_cart"
        /\ execLog[k].cartIdIn # context.cartId

\* iterations whose tool-result turn has been appended
CompleteIterations == IF pc = "execTools" THEN iterations - 1 ELSE iterations

\* C5: every iteration appends one assistant turn holding the response's raw
\* blocks and then one tool-result turn with one result per tool_use block of
\* that assistant turn, in the same order and under the same invocation ids.
C5_TurnsPairUp ==
    claudeResponse # NoResponse =>
        /\ Len(conversationMessages) =
              Len(messages) + 2 * CompleteIterations
                + (IF pc = "execTools" THEN 1 ELSE 0)
        /\ pc \in {"execTools", "callClaudeWithToolResults"} =>
              /\ AssistantTurn(iterations).role = "assistant"
              /\ AssistantTurn(iterations).content = claudeResponse.content
        /\ \A it \in 1..CompleteIterations :
              LET a == AssistantTurn(it)
                  u == ToolResultTurn(it)
                  blocks == extractToolUse(a.content)
              IN  /\ a.role = "assistant"
                  /\ u.role = "user"
                  /\ Len(u.content) = Len(blocks)
                  /\ \A k \in 1..Len(blocks) :
                        /\ u.content[k].type = "tool_result"
                        /\ u.content[k].tool_use_id = blocks[k].id

C5_Witness ==
    /\ pc = "callClaudeWithToolResults"
    /\ Len(toolResults) = 2
    /\ toolResults[1].tool_use_id # toolResults[2].tool_use_id
    /\ ToolResultTurn(iterations).content = toolResults

\* C6: every LLM call carries the same system prompt and tool declarations
\* and the whole accumulated list: the caller's history as a prefix, the list
\* of the previous call extended by the assistant turn and the tool-result
\* turn of the iteration in between.
C6_FullListEveryCall ==
    \A n \in 1..Len(llmLog) :
        /\ llmLog[n].system = llmLog[1].system
        /\ llmLog[n].tools = AGENT_TOOLS
        /\ Len(llmLog[n].messages) = Len(messages) + 2 * (n - 1)
        /\ SubSeq(llmLog[n].messages, 1, Len(messages)) = messages
        /\ n > 1 =>
              /\ SubSeq(llmLog[n].messages, 1, Len(llmLog[n - 1].messages))
                    = llmLog[n - 1].messages
              /\ llmLog[n].messages[Len(llmLog[n].messages) - 1] = AssistantTurn(n - 1)
              /\ llmLog[n].messages[Len(llmLog[n].messages)] = ToolResultTurn(n - 1)
              /\ AssistantTurn(n - 1).role = "assistant"
              /\ ToolResultTurn(n - 1).role = "user"

C6_Witness == Len(llmLog) = 3 /\ Len(messages) = 3

\* C7: the returned cartId and checkoutUrl are those of the last tool result
\* of the cycle that held one, whichever iteration produced it; without any,
\* the cartId is the one of the incoming context and no checkoutUrl is given.
C7_LastWriteWins ==
    Returned =>
        /\ response.cartId = LastField("cartId", context.cartId, allToolCalls)
        /\ response.checkoutUrl = LastField("checkoutUrl", NoUrl, allToolCalls)

CartIdsSeen ==
    { allToolCalls[k].result.data.cartId :
        k \in { j \in 1..Len(allToolCalls) : HasField(allToolCalls[j].result, "cartId") } }

C7_Witness ==
    /\ Returned
    /\ Cardinality(CartIdsSeen) >= 2
    /\ response.cartId # context.cartId
    /\ response.checkoutUrl # NoUrl

RECURSIVE ConcatData(_)
ConcatData(evs) ==
    IF Len(evs) = 0 THEN <<>> ELSE Head(evs).data \o ConcatData(Tail(evs))

LastEvent == events[Len(events)]

\* C8: when the stream has ended with done, the payloads of its text events,
\* concatenated in order, are the reply processMessage returned.
C8_TextEventsReproduceReply ==
    (pc = "streamEnd" /\ Returned) =>
        ConcatData(TextEvents(events)) = response.reply

C8_Witness ==
    /\ pc = "streamEnd"
    /\ Returned
    /\ Len(response.reply) = 120
    /\ Len(TextEvents(events)) = 3
    /\ Len(TextEvents(events)[3].data) = 20

\* C9: in streaming mode the tool event of every executed invocation has been
\* emitted before the next invocation is executed and before the next LLM
\* call is issued.
C9_ToolEventAsToolCompletes ==
    (mode = "stream" /\ pc \in {"execTools", "callClaudeWithToolResults"}) =>
        Len(ToolEvents(events)) = Len(allToolCalls)

\* C10: when a streaming cycle fails, the tool events of the calls executed
\* before the failure precede the error event.
C10_ToolEventsBeforeError ==
    (pc = "streamEnd" /\ LastEvent.type = "error") =>
        /\ Len(ToolEvents(events)) = Len(allToolCalls)
        /\ \A k \in 1..Len(allToolCalls) : ToolEvents(events)[k].data = allToolCalls[k]

IsTerminal(e) == e.type \in {"done", "error"}

\* every step of the cycle is taken eventually: the awaited calls answer or fail
FairSpec == Spec /\ WF_vars(Next)

\* C11: a done or error event is the last event of the stream and ends it, a
\* stream that has ended holds exactly one of them, a done event carries the
\* AgentResponse processMessage returned (reply, toolCalls, cartId and
\* checkoutUrl of the cycle), an error event comes only without a returned
\* response, and every streaming cycle reaches its terminal event.
C11_OneTerminalEvent ==
    /\ [](/\ \A i \in 1..Len(events) :
               IsTerminal(events[i]) => (i = Len(events) /\ pc = "streamEnd")
          /\ pc = "streamEnd" => (Len(events) >= 1 /\ IsTerminal(LastEvent))
          /\ (pc = "streamEnd" /\ LastEvent.type = "done") =>
                /\ LastEvent.data = response
                /\ response = AgentResponse(extractText(claudeResponse.content),
                                            allToolCalls, cartId, checkoutUrl)
                /\ thrown = <<>>
          /\ (pc = "streamEnd" /\ LastEvent.type = "error") => response = NoResponse)
    /\ ((mode = "stream" /\ pc = "buildPrompt") ~> (pc = "streamEnd"))

C11_Witness ==
    /\ pc = "streamEnd"
    /\ LastEvent.type = "done"
    /\ Len(ToolCallsOf(LastEvent.data)) = 2
    /\ LastEvent.data.cartId # Undefined
    /\ Len(TextEvents(events)) >= 1

\* C12: the error event that ends a failed streaming cycle carries the fixed
\* sanitized message, at the generator and on the SSE wire, never the message
\* of the exception.
C12_ErrorEventSanitized ==
    (pc = "streamEnd" /\ LastEvent.type = "error") =>
        /\ LastEvent.data = GenericError
        /\ wire[Len(wire)].event = "error"
        /\ wire[Len(wire)].data # JSONstringify(thrown)

\* C13: the error a failed processMessage rejects with carries the generic
\* message only, and so does the 500 response of POST /agent.
C13_SyncFailureSanitized ==
    (mode = "sync" /\ pc \in {"thrown", "responded"} /\ thrown # <<>>) =>
        /\ thrown = GenericError
        /\ pc = "responded" =>
              httpResponse = [status |-> 500, success |-> FALSE, error |-> GenericError]

\* executions of iteration it
ExecutionsOf(it) == { k \in 1..Len(execLog) : execLog[k].iteration = it }

\* C15: a failed tool invocation does not end the cycle: the cycle fails only
\* at an LLM call or before the first one, every failed result of a finished
\* iteration is fed back in the iteration's tool-result turn, all invocations
\* of its turn were executed, the next LLM call was issued, and the returned
\* toolCalls hold every result, failed ones included.
C15_FailedToolContinues ==
    /\ thrown # <<>> =>
          /\ pc \in {"thrown", "catch", "streamEnd", "responded"}
          /\ \/ llmLog = <<>>
             \/ /\ Len(llmLog) = iterations + 1
                /\ iterations >= 1 =>
                      Len(conversationMessages) = Len(messages) + 2 * iterations
    /\ \A k \in 1..Len(execLog) :
          LET e == execLog[k]
              r == allToolCalls[k].result
          IN  (~r.success /\ e.iteration <= CompleteIterations) =>
                /\ "error" \in DOMAIN r
                /\ ToolResultTurn(e.iteration).content[e.index].content = JSONstringify(r)
                /\ Cardinality(ExecutionsOf(e.iteration))
                      = NumToolUse(AssistantTurn(e.iteration).content)
                /\ \/ pc = "callClaudeWithToolResults" /\ iterations = e.iteration
                   \/ Len(llmLog) >= e.iteration + 1
    /\ Returned => ToolCallsOf(response) = allToolCalls

C15_Witness ==
    /\ Returned
    /\ iterations = 2
    /\ Len(allToolCalls) = 3
    /\ ~allToolCalls[1].result.success
    /\ allToolCalls[2].result.success
    /\ allToolCalls[1].result.error = <<"Unknown tool: ", "refund_order">>
    /\ allToolCalls[3].result.success

IsRegistered(name) == \E i \in 1..Len(AGENT_TOOLS) : AGENT_TOOLS[i] = name

AllFaults == {"upstream", "lookup", "rag"}

\* C14: every execute call returns a ToolResult, a successful one with data
\* and a failed one with an error; a name outside the registry gets the
\* "Unknown tool" failure without any collaborator call; and whatever a tool
\* throws when the call is made once more, under any failing collaborator,
\* comes back as the failed result carrying the thrown message, with session
\* map and carts as the tool left them.
C14_ExecuteTotal ==
    /\ lastExec # NoExec =>
          /\ "success" \in DOMAIN lastExec.result
          /\ lastExec.result.success => "data" \in DOMAIN lastExec.result
          /\ ~lastExec.result.success => "error" \in DOMAIN lastExec.result
          /\ ~IsRegistered(lastExec.name) =>
                /\ lastExec.result = Err(<<"Unknown tool: ", lastExec.name>>)
                /\ lastExec.calls = <<>>
    /\ lastExec # NoExec =>
          \A o \in dispatch(lastExec.name, lastExec.input, lastExec.ctx, cartStore,
                             shopCarts, tenant, AllFaults) :
             "thrown" \in DOMAIN o.result =>
                 [o EXCEPT !.result = Err(o.result.thrown)]
                    \in execute(lastExec.name, lastExec.input, lastExec.ctx, cartStore,
                                shopCarts, tenant, AllFaults)

C14_Witness ==
    /\ prevExec # NoExec
    /\ lastExec # NoExec
    /\ prevExec.name = "refund_order"
    /\ lastExec.name = "add_to_cart"
    /\ lastExec.fault = 1
    /\ lastExec.result = Err(<<"Shopify Storefront API error: 502">>)

IsCartCall(e) ==
    \/ e.name = "get_cart"
    \/ e.name = "add_to_cart" /\ e.input.variantId # ""
    \/ e.name = "create_order" /\ includes(e.input.email, "@")

\* C17: once add_to_cart has created a cart for the session, every later cart
\* tool call of the session whose context carries no cartId, in the same or in
\* a later request, still resolves a cart id.
C17_CartKeptAcrossRequests ==
    (/\ lastExec # NoExec
     /\ IsCartCall(lastExec)
     /\ lastExec.createdBefore >= 1
     /\ lastExec.ctx.cartId = Undefined) =>
        lastExec.known # Undefined

\* C18: add_to_cart creates a cart only while the session has none: an
\* add_to_cart made after a cart was created for the session never creates
\* another one, so the session sees at most one created cart.
C18_OneCartPerSession ==
    /\ cartsCreated <= 1
    /\ (/\ lastExec # NoExec
        /\ lastExec.name = "add_to_cart"
        /\ lastExec.createdBefore >= 1) =>
           ~includes(lastExec.calls, "storefront.createCart")

\* the tenants table row holds a store URL and a public storefront token
ConfiguredRow ==
    /\ "shopify_store_url" \in DOMAIN tenantRow
    /\ tenantRow.shopify_store_url # ""
    /\ tenantRow.shopify_storefront_token # ""

\* a search_products call with a non-blank query that the indexed catalog
\* answered with no hit, no collaborator failing
IsCatalogMiss(e) ==
    /\ e.name = "search_products"
    /\ Len(trim(e.input.query)) > 0
    /\ Len(RagSearchProducts(e.input.query)) = 0
    /\ e.fault = 0

NotConfiguredErrors ==
    { <<"Shopify not configured">>, <<"Shopify not configured for this store">> }

\* C19: for a tenant whose row holds a store URL and a storefront token, a
\* search_products that misses the indexed catalog returns the products of the
\* live commerce search, and no commerce tool reports the platform as not
\* configured.
C19_StoredCredentialsReachCommerce ==
    (lastExec # NoExec /\ ConfiguredRow) =>
        /\ IsCatalogMiss(lastExec) =>
              lastExec.result =
                  Ok([source |-> "shopify",
                      products |-> MapSeq(StorefrontSearchProducts(lastExec.input.query),
                                          formatProduct)])
        /\ ~lastExec.result.success => lastExec.result.error \notin NotConfiguredErrors

\* no live commerce source is configured or available for the tenant
NoCommerceSource == tenant = NoTenant \/ ~createStorefrontClient(tenant)

\* C20 as stated: a search_products that misses the indexed catalog while no
\* commerce source is configured, the tenant without a row included, succeeds
\* with an empty product list and a message.
C20_NoResultsNeverError ==
    (lastExec # NoExec /\ IsCatalogMiss(lastExec) /\ NoCommerceSource) =>
        /\ lastExec.result.success
        /\ lastExec.result.data.products = <<>>
        /\ "message" \in DOMAIN lastExec.result.data

\* C20 amended: such a search succeeds with an empty product list and a
\* message when the tenant resolves but has no storefront client, and fails
\* with "Tenant not found" when the tenant id has no row; with a storefront
\* client it succeeds with the live search's products, an empty list included.
C20_NoResultsUnlessNoTenant ==
    (lastExec # NoExec /\ IsCatalogMiss(lastExec)) =>
        /\ (tenant # NoTenant /\ ~createStorefrontClient(tenant)) =>
              /\ lastExec.result.success
              /\ lastExec.result.data.products = <<>>
              /\ lastExec.result.data.message = <<"No products found">>
        /\ tenant = NoTenant => lastExec.result = Err(<<"Tenant not found">>)
        /\ (tenant # NoTenant /\ createStorefrontClient(tenant)) =>
              /\ lastExec.result.success
              /\ lastExec.result.data.source = "shopify"

C20_Witness ==
    /\ lastExec # NoExec
    /\ prevExec # NoExec
    /\ IsCatalogMiss(lastExec)
    /\ tenant # NoTenant
    /\ ~createStorefrontClient(tenant)
    /\ lastExec.result.success
    /\ lastExec.result.data.products = <<>>
    /\ lastExec.calls = <<"rag.searchProducts", "tenantService.getTenant">>


\* C21: get_cart never turns a missing or expired cart into a failure: with no
\* cart id known for the session it returns the successful empty-cart result
\* without any collaborator call, and every get_cart that reached the fetch of
\* the cart returns a successful result, which is the 'Cart is empty or
\* expired' result when the platform no longer knows the cart
C21_GetCartNeverFails ==
    (lastExec # NoExec /\ lastExec.name = "get_cart") =>
        /\ lastExec.known = Undefined =>
              /\ lastExec.result = CartEmpty
              /\ lastExec.calls = <<>>
        /\ includes(lastExec.calls, "storefront.getCart") =>
              /\ lastExec.result.success
              /\ lastExec.known \notin DOMAIN shopCarts =>
                    lastExec.result = CartEmptyOrExpired
              /\ lastExec.result # CartEmptyOrExpired =>
                    lastExec.result.data.cartId \in DOMAIN shopCarts

\* a get_cart for a cart the platform no longer knows reached the fetch, no
\* collaborator misbehaved, and it answered 'Cart is empty or expired'
C21_Witness ==
    /\ lastExec # NoExec
    /\ lastExec.name = "get_cart" /\ lastExec.known = StaleCartId
    /\ lastExec.calls = <<"tenantService.getTenant", "storefront.getCart">>
    /\ lastExec.result = CartEmptyOrExpired
    /\ lastExec.fault = 0

\* the input fails the check at the head of the tool's handler
FailsValidation(name, input) ==
    CASE name \in {"search_products", "search_faqs"} ->
            Len(input.query) = 0 \/ Len(trim(input.query)) = 0
      [] name = "get_product_details" -> input.productHandle = ""
      [] name = "add_to_cart" -> input.variantId = ""
      [] name = "create_order" -> \A i \in 1..Len(input.email) : input.email[i] # "@"
      [] OTHER -> FALSE

\* C22: a tool invocation whose input fails validation (missing or blank
\* query, no product handle, no variant id, an email without '@') returns
\* {success:false} after zero calls to the tenant resolver, the retriever and
\* the commerce platform, leaves the session->cart map and the platform's
\* carts unchanged, and create_order's error is "Valid email address is
\* required"
C22_ValidationBeforeCalls ==
    (lastExec # NoExec /\ FailsValidation(lastExec.name, lastExec.input)) =>
        /\ lastExec.result.success = FALSE
        /\ lastExec.calls = <<>>
        /\ lastExec.fault = 0
        /\ cartStore = lastExec.storeBefore
        /\ cartsCreated = lastExec.createdBefore
        /\ lastExec.name = "create_order" =>
              lastExec.result.error = <<"Valid email address is required">>
        /\ \A o \in execute(lastExec.name, lastExec.input, lastExec.ctx,
                             cartStore, shopCarts, tenant, AllFaults) :
              o.calls = <<>> /\ o.carts = shopCarts /\ o.store = cartStore

\* create_order with an email lacking '@' was rejected in a session that holds
\* a cart, right after a search with a blank query was rejected
C22_Witness ==
    /\ lastExec # NoExec /\ prevExec # NoExec
    /\ prevExec.name = "search_products" /\ prevExec.input.query = <<" ", " ">>
    /\ prevExec.result = Err(<<"Search query is required">>)
    /\ lastExec.name = "create_order" /\ lastExec.input.email = <<"n", "o", "p", "e">>
    /\ lastExec.known # Undefined
    /\ createStorefrontClient(tenant)
    /\ lastExec.result = Err(<<"Valid email address is required">>)
    /\ lastExec.calls = <<>>

\* the tenant's configuration holds a store URL and a storefront token and no
\* admin token
PublicCredentialsOnly ==
    \/ /\ "shopify_store_url" \in DOMAIN tenantRow
       /\ tenantRow.shopify_store_url # ""
       /\ tenantRow.shopify_storefront_token # ""
       /\ tenantRow.shopify_admin_token = ""
    \/ /\ tenantRow = Injected
       /\ createStorefrontClient(tenant)
       /\ ~createAdminClient(tenant)

\* C23: create_order with a valid email and a non-empty cart, for a tenant
\* with public commerce credentials and no admin credentials, returns
\* {success:true} with the cart's checkoutUrl and the message to complete the
\* checkout there, and creates no draft order
C23_CheckoutFallback ==
    (/\ lastExec # NoExec
     /\ lastExec.name = "create_order"
     /\ ~FailsValidation(lastExec.name, lastExec.input)
     /\ lastExec.known \in DOMAIN shopCarts
     /\ lastExec.fault = 0
     /\ PublicCredentialsOnly) =>
        /\ Len(shopCarts[lastExec.known]) > 0
        /\ lastExec.result =
              Ok([checkoutUrl |-> CheckoutUrlOf(lastExec.known),
                  message |-> <<"Please complete your order using the checkout link">>])
        /\ ~includes(lastExec.calls, "admin.createDraftOrder")

\* the getTenant call completed last began after the one before it had
\* completed, and both were for the same id
ConsecutiveGets ==
    /\ lastGet # NoGet /\ prevGet # NoGet
    /\ lastGet.sequential
    /\ lastGet.id = prevGet.id

IsThrown(result) == "thrown" \in DOMAIN result

\* C24: for a tenant id absent from the store, two consecutive getTenant calls
\* of which the second begins within the cache TTL of the first, and which the
\* store does not fail, issue at most one store query and both return null
C24_NegativeCachingIdempotent ==
    (/\ ConsecutiveGets
     /\ TenantsTable(lastGet.id) = NoRow
     /\ ~IsThrown(prevGet.result) /\ ~IsThrown(lastGet.result)
     /\ lastGet.startedAt < prevGet.finishedAt + TENANT_CACHE_TTL_MS) =>
        /\ prevGet.result = NoTenant
        /\ lastGet.result = NoTenant
        /\ ~(prevGet.queried /\ lastGet.queried)

\* the first getTenant for the absent id queried the store, and the second,
\* one tick later, returned null without a query
C24_Witness ==
    /\ ConsecutiveGets
    /\ lastGet.id = AbsentId
    /\ prevGet.queried /\ prevGet.result = NoTenant
    /\ lastGet.startedAt = prevGet.finishedAt + 1
    /\ ~lastGet.queried /\ lastGet.result = NoTenant

\* C25: getTenant is cache-first: a call that finds an unexpired entry for its
\* id returns the entry's tenant without a store query; a call that finds an
\* entry at or after its expiry queries the store and, unless the store fails,
\* replaces the entry; no entry is served at or after its expiry time
C25_CacheFirst ==
    (lastGet # NoGet /\ Len(trim(lastGet.id)) > 0) =>
        /\ (lastGet.entryBefore # NoEntry
             /\ lastGet.entryBefore.expiresAt > lastGet.startedAt) =>
               /\ ~lastGet.queried
               /\ lastGet.result = lastGet.entryBefore.tenant
        /\ (lastGet.entryBefore # NoEntry
             /\ lastGet.entryBefore.expiresAt <= lastGet.startedAt) =>
               /\ lastGet.queried
               /\ ~IsThrown(lastGet.result) =>
                     /\ cacheGet(cache, lastGet.id) =
                           [tenant |-> lastGet.result,
                            expiresAt |-> lastGet.finishedAt + TENANT_CACHE_TTL_MS]
                     /\ cacheGet(cache, lastGet.id) # lastGet.entryBefore
        /\ ~lastGet.queried =>
               /\ lastGet.entryBefore # NoEntry
               /\ lastGet.entryBefore.expiresAt > lastGet.finishedAt

\* a getTenant at the expiry time of the entry queried the store and replaced
\* the entry, after a getTenant that was served from the entry
C25_Witness ==
    /\ ConsecutiveGets
    /\ lastGet.id = TenantId
    /\ ~prevGet.queried /\ prevGet.result = getTenant(TenantsTable(TenantId))
    /\ lastGet.entryBefore = prevGet.entryBefore
    /\ lastGet.startedAt = lastGet.entryBefore.expiresAt
    /\ lastGet.queried
    /\ lastGet.result = getTenant(TenantsTable(TenantId))
    /\ cache[TenantId].expiresAt = lastGet.finishedAt + TENANT_CACHE_TTL_MS

\* C26: a store error other than 'no such row' makes getTenant throw instead
\* of returning null and writes nothing to the cache, and the next getTenant
\* for the same id, finding no unexpired entry, queries the store again; null
\* is returned after a query only for the 'no such row' condition
C26_StoreErrorPropagates ==
    /\ (lastGet # NoGet /\ IsThrown(lastGet.result)) =>
          /\ lastGet.queried
          /\ lastGet.result.thrown = <<"Failed to fetch tenant: ", "connection refused">>
          /\ cacheGet(cache, lastGet.id) = lastGet.entryAtFinish
    /\ (ConsecutiveGets /\ IsThrown(prevGet.result)
         /\ ~CacheHit(prevGet.entryAtFinish, lastGet.startedAt)) =>
          lastGet.queried
    /\ (lastGet # NoGet /\ lastGet.queried /\ lastGet.result = NoTenant) =>
          TenantsTable(lastGet.id) = NoRow

\* the store failed a getTenant for the absent id, and the next getTenant for
\* it queried the store and got the 'no such row' answer
C26_Witness ==
    /\ ConsecutiveGets
    /\ lastGet.id = AbsentId
    /\ IsThrown(prevGet.result)
    /\ prevGet.entryAtFinish = NoEntry
    /\ lastGet.queried
    /\ lastGet.result = NoTenant
    /\ cache[AbsentId] = NegativeEntry(lastGet.finishedAt)

\* C30: an HTTP 429 from the chat-completion provider during an LLM call of
\* processMessage is retried: a processing cycle that failed with the
\* provider's 429 had repeated the throttled call at least once
C30_RateLimitRetried ==
    (pc \in {"thrown", "catch", "responded", "streamEnd"} /\ thrown = ClaudeRateLimited) =>
        /\ Len(llmLog) >= 2
        /\ llmLog[Len(llmLog)] = llmLog[Len(llmLog) - 1]

\* the provider answered the fetch with HTTP 429
Is429(r) == ~IsNetworkError(r) /\ r.status = 429

\* the provider answered the fetch with a non-2xx status other than 429
IsHardFailure(r) == ~IsNetworkError(r) /\ ~ok(r) /\ r.status # 429

\* C27: one embed call makes at most three upstream calls, makes call n+1 only
\* after call n returned HTTP 429, and returns the vector of the first
\* successful response; answered 429, 429, 200 it has returned the vector
\* after exactly three upstream calls
C27_EmbedRetryBounded ==
    gateway = "embeddings" =>
        /\ Len(upstream) <= MAX_RETRIES
        /\ \A n \in 1..(Len(upstream) - 1) : Is429(upstream[n])
        /\ \A n \in 1..Len(upstream) :
              (~IsNetworkError(upstream[n]) /\ ok(upstream[n])) =>
                  /\ n = Len(upstream)
                  /\ outcome = [returned |-> upstream[n].data[1].embedding]
        /\ (Len(upstream) = 3 /\ Is429(upstream[1]) /\ Is429(upstream[2])
             /\ ~IsNetworkError(upstream[3]) /\ ok(upstream[3])) =>
                  outcome = [returned |-> "vecA"]

\* C28: in both gateways a non-2xx response other than 429 is the last
\* upstream call of the call and makes it fail, whatever the error text holds
C28_OnlyRateLimitRetried ==
    \A n \in 1..Len(upstream) :
        IsHardFailure(upstream[n]) =>
            /\ n = Len(upstream)
            /\ IsThrown(outcome)

\* C29: a gateway call whose every attempt was answered with HTTP 429 stops
\* after three upstream calls and throws an error that carries the status 429
C29_ExhaustedCarriesStatus ==
    (/\ gateway # "none"
     /\ Len(upstream) > 0
     /\ \A n \in 1..Len(upstream) : Is429(upstream[n])) =>
        /\ Len(upstream) <= MAX_RETRIES
        /\ outcome # NoOutcome =>
              /\ Len(upstream) = MAX_RETRIES
              /\ IsThrown(outcome)
              /\ includesText(outcome.thrown, <<"4", "2", "9">>)

IsReturned(o) == "returned" \in DOMAIN o

\* C31: for a list of non-blank texts, embedBatch(texts)[i] is the vector of
\* texts[i], whatever the chunking and whatever order the provider lists the
\* vectors inside a chunk response
C31_BatchPreservesOrder ==
    (/\ IsReturned(embeddings)
     /\ \A i \in 1..Len(texts) : Len(trim(texts[i])) > 0) =>
        /\ Len(embeddings.returned) = Len(texts)
        /\ \A i \in 1..Len(texts) : embeddings.returned[i] = VectorOf(trim(texts[i]))

\* C37: embedBatch returns exactly one vector per input text, so that no
\* blank text is dropped and later vectors shift, and no blank text is sent
\* upstream
C37_BatchLengthPreserved ==
    /\ IsReturned(embeddings) => Len(embeddings.returned) = Len(texts)
    /\ \A c \in 1..Len(sentChunks) : \A k \in 1..Len(sentChunks[c]) :
          Len(trim(sentChunks[c][k])) > 0

\* the rows of the list whose similarity is at least the floor, in the order
\* of the list
AtOrAboveFloor(rows, floor) == SelectSeq(rows, LAMBDA r : r.similarity >= floor)

\* the hits are the given rows, one for one, in their order
SameHits(hits, rows, key(_)) ==
    /\ Len(hits) = Len(rows)
    /\ \A k \in 1..Len(hits) :
          key(hits[k]) = key(rows[k]) /\ hits[k].similarity = rows[k].similarity

ProductKey(p) == p.id
FaqKey(f) == f.question

\* C32: every hit returned by searchProducts, searchFaqs and search has a
\* similarity of at least the configured floor; the returned list is the
\* store's row list without the rows below the floor, in unchanged order; and
\* every lookup is issued with the caller's tenantId and the result-count cap
C32_SimilarityFloor ==
    (ragCall # NoOutcome /\ IsReturned(ragResult) /\ "rows" \in DOMAIN ragResult) =>
        LET floor == ragCall.config.similarityThreshold
            hits == ragResult.returned
            rows == ragResult.rows
        IN  /\ \A k \in 1..Len(rpcLog) : rpcLog[k].p_tenant_id = ragCall.tenantId
            /\ CASE ragCall.method = "searchProducts" ->
                       /\ \A k \in 1..Len(hits) : hits[k].similarity >= floor
                       /\ SameHits(hits, AtOrAboveFloor(rows, floor), ProductKey)
                       /\ rpcLog = <<Rpc("search_products", ragCall.tenantId,
                                         IF ragCall.limit = NoLimit
                                         THEN ragCall.config.productLimit
                                         ELSE ragCall.limit[1])>>
                 [] ragCall.method = "searchFaqs" ->
                       /\ \A k \in 1..Len(hits) : hits[k].similarity >= floor
                       /\ SameHits(hits, AtOrAboveFloor(rows, floor), FaqKey)
                       /\ rpcLog = <<Rpc("search_faqs", ragCall.tenantId,
                                         IF ragCall.limit = NoLimit
                                         THEN ragCall.config.faqLimit
                                         ELSE ragCall.limit[1])>>
                 [] ragCall.method = "search" ->
                       /\ \A k \in 1..Len(hits.products) : hits.products[k].similarity >= floor
                       /\ \A k \in 1..Len(hits.faqs) : hits.faqs[k].similarity >= floor
                       /\ SameHits(hits.products, AtOrAboveFloor(rows.products, floor), ProductKey)
                       /\ SameHits(hits.faqs, AtOrAboveFloor(rows.faqs, floor), FaqKey)
                       /\ rpcLog = <<Rpc("search_products", ragCall.tenantId,
                                         ragCall.config.productLimit),
                                     Rpc("search_faqs", ragCall.tenantId,
                                         ragCall.config.faqLimit)>>

\* searchProducts under the default floor got rows below, at and above the
\* floor and returned the rows at and above it, in the store's order
C32_Witness ==
    /\ ragCall # NoOutcome /\ IsReturned(ragResult) /\ "rows" \in DOMAIN ragResult
    /\ ragCall.method = "searchProducts"
    /\ ragCall.config.similarityThreshold = DEFAULT_SIMILARITY_THRESHOLD
    /\ Len(ragResult.rows) = 3
    /\ ragResult.rows[1].similarity = 25
    /\ ragResult.rows[2].similarity = 10
    /\ ragResult.rows[3].similarity = 40
    /\ Len(ragResult.returned) = 2
    /\ ragResult.returned[1].id = 1 /\ ragResult.returned[2].id = 3

----------------------------------------------------------------------------
(* ToolExecutor (agent-tools.ts): add_to_cart and get_cart invocations on   *)
(* one ToolExecutor, of any contexts, interleaved at their awaits, while    *)
(* carts expire on the platform.                                            *)

MaxHandlers == 2
MaxInvocations == 3

Handlers == 1..MaxHandlers

\* the contexts of the invocations: tenant and session ids are any strings
ExecutorTenantIds == { <<"a">>, <<"a", ":", "b">> }
ExecutorSessionIds == { <<"c">>, <<"b", ":", "c">> }
ExecutorContexts ==
    { [tenantId |-> t, sessionId |-> x, cartId |-> Undefined] :
        t \in ExecutorTenantIds, x \in ExecutorSessionIds }

\* an invocation past its last await: execute returns the result, a thrown
\* error as { success: false, error: message }
Finished(hd, result) ==
    [hd EXCEPT !.pc = "done", !.result = Catch([result |-> result]).result]

\* the id the platform gives to the next created cart
CreatedCartId == CartIdSeq[Len(created) + 1]

WithHandler(h, hd) ==
    [k \in DOMAIN handlers \cup {h} |-> IF k = h THEN hd ELSE handlers[k]]

WithoutKey(f, key) ==
    IF DOMAIN f = {key} THEN <<>> ELSE [k \in DOMAIN f \ {key} |-> f[k]]

ExecutorInit ==
    /\ AgentIdle
    /\ ServicesIdle

othersThanExecutor == <<agentVars, tenantVars, gatewayVars, batchVars, ragVars, rateVars, streamVars, requestVars>>

\* execute('add_to_cart' | 'get_cart', input, context) runs up to its first
\* await: addToCart checks variantId and awaits getTenant; getCart reads the
\* cart id of the session and, when there is one, awaits getTenant
Invoke(h) ==
    /\ h \notin DOMAIN handlers
    /\ invoked < MaxInvocations
    /\ invoked' = invoked + 1
    /\ \E ctx \in ExecutorContexts :
          LET hd(tool, id) ==
                  [pc |-> "tenantService.getTenant", tool |-> tool, ctx |-> ctx,
                   existing |-> id, result |-> NoOutcome]
          IN  \/ \E variantId \in {"v0", ""} :
                    handlers' = WithHandler(h,
                        IF variantId = ""
                        THEN Finished(hd("add_to_cart", Undefined),
                                      Err(<<"Variant ID is required">>))
                        ELSE hd("add_to_cart", Undefined))
              \/ handlers' = WithHandler(h,
                        IF getCartId(sessionCarts, ctx) = Undefined
                        THEN Finished(hd("get_cart", Undefined), CartEmpty)
                        ELSE hd("get_cart", getCartId(sessionCarts, ctx)))
    /\ UNCHANGED <<sessionCarts, platformCarts, created, othersThanExecutor>>

\* await this.tenantService.getTenant resumes: without a tenant the tool fails;
\* addToCart then reads the cart id of the session and awaits addToCart or
\* createCart of the storefront; getCart awaits getCart of the storefront
GetTenantReturns(h) ==
    /\ h \in DOMAIN handlers
    /\ handlers[h].pc = "tenantService.getTenant"
    /\ \E found \in BOOLEAN :
          LET hd == handlers[h]
              existingCartId == getCartId(sessionCarts, hd.ctx)
          IN  handlers' = WithHandler(h,
                 IF ~found
                 THEN Finished(hd, Err(<<"Tenant not found">>))
                 ELSE IF hd.tool = "get_cart"
                 THEN [hd EXCEPT !.pc = "storefront.getCart"]
                 ELSE IF existingCartId # Undefined
                 THEN [hd EXCEPT !.pc = "storefront.addToCart",
                                 !.existing = existingCartId]
                 ELSE [hd EXCEPT !.pc = "storefront.createCart"])
    /\ UNCHANGED <<sessionCarts, platformCarts, created, invoked, othersThanExecutor>>

\* await storefront.createCart resumes: the created cart is remembered for the
\* session, or the call threw
CreateCartReturns(h) ==
    /\ h \in DOMAIN handlers
    /\ handlers[h].pc = "storefront.createCart"
    /\ LET hd == handlers[h]
           cart == CartResponse(CreatedCartId, <<Line("v0", 1)>>)
       IN  \/ /\ platformCarts' = PutCart(platformCarts, cart.cartId, cart.lines)
              /\ created' = Append(created, [cartId |-> cart.cartId, ctx |-> hd.ctx])
              /\ sessionCarts' = setCartId(sessionCarts, hd.ctx, cart.cartId)
              /\ handlers' = WithHandler(h, Finished(hd, Ok(formatCart(cart))))
           \/ /\ handlers' = WithHandler(h,
                     Finished(hd, Thrown(<<"Shopify Storefront API error: 502">>)))
              /\ UNCHANGED <<platformCarts, created, sessionCarts>>
    /\ UNCHANGED <<invoked, othersThanExecutor>>

\* await storefront.addToCart resumes: the line is added to the cart, or the
\* platform does not know the cart and the call threw
AddToCartReturns(h) ==
    /\ h \in DOMAIN handlers
    /\ handlers[h].pc = "storefront.addToCart"
    /\ LET hd == handlers[h]
           id == hd.existing
       IN  IF id \in DOMAIN platformCarts
           THEN LET lines == Append(platformCarts[id], Line("v0", 1))
                IN  /\ platformCarts' = PutCart(platformCarts, id, lines)
                    /\ handlers' = WithHandler(h,
                          Finished(hd, Ok(formatCart(CartResponse(id, lines)))))
           ELSE /\ handlers' = WithHandler(h,
                      Finished(hd, Thrown(<<"Add to cart failed: cart not found">>)))
                /\ UNCHANGED platformCarts
    /\ UNCHANGED <<sessionCarts, created, invoked, othersThanExecutor>>

\* await storefront.getCart resumes: the cart, or the catch block when the
\* platform does not know the cart
GetCartReturns(h) ==
    /\ h \in DOMAIN handlers
    /\ handlers[h].pc = "storefront.getCart"
    /\ LET hd == handlers[h]
           id == hd.existing
       IN  handlers' = WithHandler(h,
              IF id \in DOMAIN platformCarts
              THEN Finished(hd, Ok(formatCart(CartResponse(id, platformCarts[id]))))
              ELSE Finished(hd, CartEmptyOrExpired))
    /\ UNCHANGED <<sessionCarts, platformCarts, created, invoked, othersThanExecutor>>

\* the caller of execute has its result
ExecuteReturns(h) ==
    /\ h \in DOMAIN handlers
    /\ handlers[h].pc = "done"
    /\ handlers' = WithoutKey(handlers, h)
    /\ UNCHANGED <<sessionCarts, platformCarts, created, invoked, othersThanExecutor>>

\* a cart expires on the platform
CartExpires ==
    /\ \E id \in DOMAIN platformCarts : platformCarts' = WithoutKey(platformCarts, id)
    /\ UNCHANGED <<handlers, sessionCarts, created, invoked, othersThanExecutor>>

ExecutorNext ==
    \/ \E h \in Handlers : Invoke(h)
    \/ \E h \in Handlers : GetTenantReturns(h)
    \/ \E h \in Handlers : CreateCartReturns(h)
    \/ \E h \in Handlers : AddToCartReturns(h)
    \/ \E h \in Handlers : GetCartReturns(h)
    \/ \E h \in Handlers : ExecuteReturns(h)
    \/ CartExpires

ExecutorSpec == ExecutorInit /\ [][ExecutorNext]_vars

\* C33: interleaving invocations at their awaits loses no update of the
\* session->cart map: the add_to_cart calls of one (tenant, session) whose
\* session has no cart create one cart between them, never two
C33_NoLostUpdate ==
    \A i, j \in 1..Len(created) : created[i].ctx = created[j].ctx => i = j

\* C35: a cart id remembered for one tenant is never used by a call whose
\* context has another tenant: the cart id an invocation read from the map
\* was created by an invocation of the same tenant
C35_CartsIsolatedPerTenant ==
    \A h \in DOMAIN handlers :
        handlers[h].existing # Undefined =>
            \E i \in 1..Len(created) :
                /\ created[i].cartId = handlers[h].existing
                /\ created[i].ctx.tenantId = handlers[h].ctx.tenantId

\* invocation h ends in this step
Finishes(h) ==
    /\ h \in DOMAIN handlers'
    /\ handlers'[h].pc = "done"
    /\ h \in DOMAIN handlers => handlers[h].pc # "done"

\* C40: a get_cart that finds the remembered cart expired, and every call that
\* returns { success: false }, leave the session->cart map unchanged; no key
\* of the map is ever removed; and an add_to_cart of a session whose map entry
\* names a cart, expired or not, goes to storefront.addToCart with that id and
\* never to createCart
C40_FailuresKeepTheMap ==
    [][ /\ \A h \in Handlers :
              (Finishes(h) /\ (~handlers'[h].result.success
                               \/ handlers'[h].result.data
                                    = [items |-> <<>>,
                                       message |-> <<"Cart is empty or expired">>]))
                  => sessionCarts' = sessionCarts
        /\ \A k \in DOMAIN sessionCarts : k \in DOMAIN sessionCarts'
        /\ \A h \in DOMAIN handlers :
              LET key == handlers[h].ctx.tenantId \o <<":">> \o handlers[h].ctx.sessionId
              IN  (/\ handlers[h].tool = "add_to_cart"
                   /\ handlers[h].pc = "tenantService.getTenant"
                   /\ h \in DOMAIN handlers'
                   /\ handlers'[h].pc \notin {"tenantService.getTenant", "done"}
                   /\ key \in DOMAIN sessionCarts)
                  => /\ handlers'[h].pc = "storefront.addToCart"
                     /\ handlers'[h].existing = sessionCarts[key]
      ]_vars

\* a get_cart found the cart of the session expired, the map still names that
\* cart, and an add_to_cart of the same session was sent to it and failed
C40_Witness ==
    \E g, a \in DOMAIN handlers :
        /\ handlers[g].tool = "get_cart" /\ handlers[g].pc = "done"
        /\ handlers[g].result = CartEmptyOrExpired
        /\ handlers[a].tool = "add_to_cart" /\ handlers[a].pc = "done"
        /\ handlers[a].ctx = handlers[g].ctx
        /\ handlers[a].result = Err(<<"Add to cart failed: cart not found">>)
        /\ handlers[a].existing = handlers[g].existing
        /\ SessionKey(handlers[a].ctx) \in DOMAIN sessionCarts
        /\ sessionCarts[SessionKey(handlers[a].ctx)] = handlers[a].existing
        /\ handlers[a].existing \notin DOMAIN platformCarts

----------------------------------------------------------------------------
(* rate-limit.ts: the checks of one rate-limit key against the KV store,    *)
(* one request after another (RateSpec) or interleaved at the awaits of     *)
(* incrementCounter (RateRaceSpec), while the clock runs.                   *)

WindowSeconds == 2
LimitRequests == 2
MaxClock == 4
MaxChecks == 4
MaxInFlight == 2

\* a RateLimitConfig: windowMs and maxRequests
RateLimitConfig == [windowMs |-> WindowSeconds * 1000, maxRequests |-> LimitRequests]

\* Math.ceil(ms / 1000)
CeilSeconds(ms) == (ms + 999) \div 1000

\* Math.max(0, n)
AtLeastZero(n) == IF n < 0 THEN 0 ELSE n

\* Date.now()
DateNow == clock * 1000

\* kv.get(key, 'json'): the stored entry unless its expirationTtl has run out
KvGet == IF kvEntry # NoOutcome /\ kvEntry.expiresAt > clock THEN kvEntry ELSE NoOutcome

\* existing && existing.resetAt > now
entryValid(existing, t) == existing # NoOutcome /\ existing.resetAt > t

\* mutant: the request that reaches maxRequests is rejected
allowedBelow(count, config) == count < config.maxRequests

\* allowed: count <= config.maxRequests
allowed(count, config) == count <= config.maxRequests

\* incrementCounter after kv.get: the entry to put and its expirationTtl
EntryToPut(existing, t, ttlSeconds) ==
    IF entryValid(existing, t)
    THEN [count |-> existing.count + 1, resetAt |-> existing.resetAt,
          expirationTtl |-> CeilSeconds(existing.resetAt - t), win |-> existing.win]
    ELSE [count |-> 1, resetAt |-> t + ttlSeconds * 1000,
          expirationTtl |-> ttlSeconds, win |-> 0]

\* checkRateLimit and the answer of the middleware for it
CheckResult(rq, entry, win) ==
    [now |-> rq.now, at |-> clock, count |-> entry.count, resetAt |-> entry.resetAt,
     allowed |-> allowed(entry.count, RateLimitConfig),
     remaining |-> AtLeastZero(RateLimitConfig.maxRequests - entry.count),
     response |-> IF allowed(entry.count, RateLimitConfig) THEN "next" ELSE "429",
     win |-> win]

RateInit ==
    /\ AgentIdle
    /\ ServicesIdle

othersThanRate == <<agentVars, tenantVars, gatewayVars, batchVars, ragVars, execVars, streamVars, requestVars>>

RateTick ==
    /\ clock < MaxClock
    /\ clock' = clock + 1
    /\ UNCHANGED <<kvEntry, inflight, checks, windows, othersThanRate>>

\* a request enters checkRateLimit: incrementCounter takes Date.now() and
\* awaits kv.get
CheckRateLimit(h, limit) ==
    /\ h \notin DOMAIN inflight
    /\ Cardinality(DOMAIN inflight) < limit
    /\ Len(checks) + Cardinality(DOMAIN inflight) < MaxChecks
    /\ inflight' = [k \in DOMAIN inflight \cup {h} |->
                      IF k = h
                      THEN [pc |-> "kv.get", now |-> DateNow, entry |-> NoOutcome]
                      ELSE inflight[k]]
    /\ UNCHANGED <<kvEntry, clock, checks, windows, othersThanRate>>

\* await kv.get resumes: the entry is incremented or a new one is made, and
\* kv.put is awaited
KvGetReturns(h) ==
    /\ h \in DOMAIN inflight
    /\ inflight[h].pc = "kv.get"
    /\ inflight' = [inflight EXCEPT ![h] =
                      [pc |-> "kv.put", now |-> inflight[h].now,
                       entry |-> EntryToPut(KvGet, inflight[h].now,
                                            CeilSeconds(RateLimitConfig.windowMs))]]
    /\ UNCHANGED <<kvEntry, clock, checks, windows, othersThanRate>>

\* await kv.put resumes: the entry is stored, checkRateLimit returns and the
\* middleware answers 429 or calls next()
KvPutReturns(h) ==
    /\ h \in DOMAIN inflight
    /\ inflight[h].pc = "kv.put"
    /\ LET rq == inflight[h]
           fresh == rq.entry.count = 1
           win == IF fresh THEN windows + 1 ELSE rq.entry.win
       IN  /\ kvEntry' = [count |-> rq.entry.count, resetAt |-> rq.entry.resetAt,
                          expiresAt |-> clock + rq.entry.expirationTtl, win |-> win]
           /\ windows' = IF fresh THEN windows + 1 ELSE windows
           /\ checks' = Append(checks, CheckResult(rq, rq.entry, win))
    /\ inflight' = WithoutKey(inflight, h)
    /\ UNCHANGED <<clock, othersThanRate>>

RateNext ==
    \/ RateTick
    \/ \E h \in 1..MaxInFlight : CheckRateLimit(h, 1)
    \/ \E h \in 1..MaxInFlight : KvGetReturns(h)
    \/ \E h \in 1..MaxInFlight : KvPutReturns(h)

RateSpec == RateInit /\ [][RateNext]_vars

RateRaceNext ==
    \/ RateTick
    \/ \E h \in 1..MaxInFlight : CheckRateLimit(h, MaxInFlight)
    \/ \E h \in 1..MaxInFlight : KvGetReturns(h)
    \/ \E h \in 1..MaxInFlight : KvPutReturns(h)

RateRaceSpec == RateInit /\ [][RateRaceNext]_vars

\* the finished checks that counted themselves in window w and were allowed
AllowedIn(w) == { i \in 1..Len(checks) : checks[i].win = w /\ checks[i].allowed }

C39_NoLostIncrement ==
    /\ (DOMAIN inflight = {} /\ kvEntry # NoOutcome) =>
          kvEntry.count = Cardinality({ i \in 1..Len(checks) : checks[i].win = kvEntry.win })
    /\ \A w \in 1..windows : Cardinality(AllowedIn(w)) <= LimitRequests

----------------------------------------------------------------------------
(* ClaudibleClient.chatStream (phase-01-setup-environment.md): the parse of *)
(* one streaming response, delivered by reader.read() in chunks of any      *)
(* sizes. The body is a sequence of pieces of text: "data: " is the prefix  *)
(* of a data line, "\n" the line feed, " " a blank, and a JSON document is   *)
(* two pieces, so that a read can end inside a line and inside its JSON.    *)

LF == "\n"
DataPrefix == "data: "
Done == "[DONE]"

\* {"type":"content_block_delta","delta":{"type":"text_delta","text":t}}
TextDelta(t) == [type |-> "content_block_delta", delta |-> [type |-> "text_delta", text |-> t]]

\* an event of another type
Ping == [type |-> "ping"]

Malformed == [malformed |-> TRUE]

\* JSON.parse(data): the event, or a SyntaxError
JSONparse(data) ==
    IF data = <<"{x", "x}">> THEN TextDelta("x")
    ELSE IF data = <<"{y", "y}">> THEN TextDelta("y")
    ELSE IF data = <<"{e", "e}">> THEN TextDelta("")
    ELSE IF data = <<"{p", "p}">> THEN Ping
    ELSE Malformed

\* the lines of the pieces: String.prototype.split('\n')
RECURSIVE splitLines(_, _)
splitLines(str, line) ==
    IF Len(str) = 0 THEN <<line>>
    ELSE IF Head(str) = LF THEN <<line>> \o splitLines(Tail(str), <<>>)
    ELSE splitLines(Tail(str), Append(line, Head(str)))

\* line.startsWith('data: ')
startsWithData(line) == Len(line) > 0 /\ Head(line) = DataPrefix

\* line.slice(6).trim()
dataOf(line) == trim(Tail(line))

\* the test of the if at the yield: truthy text of a text delta
IsTextDelta(event) ==
    /\ "type" \in DOMAIN event /\ event.type = "content_block_delta"
    /\ "delta" \in DOMAIN event /\ event.delta.type = "text_delta"
    /\ event.delta.text # ""

\* the for loop over the complete lines: the texts yielded, and whether
\* '[DONE]' made the generator return
RECURSIVE processLines(_, _)
processLines(lines, out) ==
    IF Len(lines) = 0 THEN [yielded |-> out, returned |-> FALSE]
    ELSE LET line == Head(lines)
         IN  IF ~startsWithData(line) THEN processLines(Tail(lines), out)
             ELSE IF dataOf(line) = <<Done>> THEN [yielded |-> out, returned |-> TRUE]
             ELSE IF IsTextDelta(JSONparse(dataOf(line)))
             THEN processLines(Tail(lines), Append(out, JSONparse(dataOf(line)).delta.text))
             ELSE processLines(Tail(lines), out)

DataLine(json) == <<DataPrefix>> \o json \o <<LF>>

\* the bodies the provider may send
StreamBodies ==
    { DataLine(<<"{x", "x}">>) \o <<LF>> \o DataLine(<<"{y", "y}">>) \o <<LF>>,
      DataLine(<<"{x", "x}">>) \o <<DataPrefix, "{y", "y}">>,
      DataLine(<<"{p", "p}">>) \o DataLine(<<"{x">>) \o DataLine(<<"{y", "y}", " ">>),
      DataLine(<<"{x", "x}">>) \o DataLine(<<Done>>) \o DataLine(<<"{y", "y}">>),
      <<"{x", "x}", LF>> \o DataLine(<<"{e", "e}">>) \o DataLine(<<"{y", "y}">>),
      <<"event: ping", LF>> \o DataLine(<<"{p", "p}">>) \o <<LF>>
          \o DataLine(<<"{x", "x}">>) \o <<LF>>,
      DataLine(<<"{y", "y}">>) \o DataLine(<<"{x", "x}">>) \o <<DataPrefix, Done>>,
      DataLine(<<"{x", "x}">>) \o DataLine(<<"x}">>) \o DataLine(<<"{y", "y}">>),
      <<" ", LF>> \o DataLine(<<" ", "{y", "y}">>) \o <<LF, LF>> \o DataLine(<<"{p", "p}">>)
          \o <<"{x">>,
      <<DataPrefix, LF>> \o DataLine(<<"{y", "y}">>) \o DataLine(<<"{y", "y}">>)
          \o <<DataPrefix, "{x", "x}", " ">>,
      <<>> }

StreamInit ==
    /\ AgentIdle
    /\ ServicesIdle

othersThanStream == <<agentVars, tenantVars, gatewayVars, batchVars, ragVars, execVars, rateVars, requestVars>>

\* chatStream is called and the response arrives
ChatStreamCall ==
    /\ streamPc = "idle"
    /\ \E body \in StreamBodies : sse' = body
    /\ readPos' = 0
    /\ buffer' = <<>>
    /\ yielded' = <<>>
    /\ streamPc' = "reading"
    /\ UNCHANGED othersThanStream

\* await reader.read() delivers the next pieces of the body, as many as it
\* likes: the complete lines are processed and the rest is kept
ReaderRead ==
    /\ streamPc = "reading"
    /\ readPos < Len(sse)
    /\ \E n \in 1..(Len(sse) - readPos) :
          LET value == SubSeq(sse, readPos + 1, readPos + n)
              lines == splitLines(buffer \o value, <<>>)
              done == processLines(SubSeq(lines, 1, Len(lines) - 1), yielded)
          IN  /\ readPos' = readPos + n
              /\ buffer' = lines[Len(lines)]
              /\ yielded' = done.yielded
              /\ streamPc' = IF done.returned THEN "returned" ELSE "reading"
    /\ UNCHANGED <<sse, othersThanStream>>

\* await reader.read() reports done: the loop breaks and the generator ends
ReaderDone ==
    /\ streamPc = "reading"
    /\ readPos = Len(sse)
    /\ streamPc' = "returned"
    /\ UNCHANGED <<sse, readPos, buffer, yielded, othersThanStream>>

\* the consumer has drained the generator
ChatStreamEnd ==
    /\ streamPc = "returned"
    /\ streamPc' = "idle"
    /\ UNCHANGED <<sse, readPos, buffer, yielded, othersThanStream>>

StreamNext ==
    \/ ChatStreamCall
    \/ ReaderRead
    \/ ReaderDone
    \/ ChatStreamEnd

StreamSpec == StreamInit /\ [][StreamNext]_vars

\* the texts of the text-delta events of a body read in one piece, every line
\* of it included, up to '[DONE]'
TextsOf(body) == processLines(splitLines(body, <<>>), <<>>).yielded

StreamYieldsTerminatedLines ==
    streamPc = "returned" =>
        LET lines == splitLines(sse, <<>>)
        IN  yielded = processLines(SubSeq(lines, 1, Len(lines) - 1), <<>>).yielded

----------------------------------------------------------------------------
(* chat-routes.ts: the validation of POST /agent and POST /agent/stream up  *)
(* to the call of createAgentServices.                                      *)

MAX_MESSAGE_LENGTH == 3
MAX_MESSAGES == 2

\* JSON values: a string with its characters, an array with its items, a
\* number, null, and a property that is not there
JsonString(chars) == [type |-> "string", value |-> chars]
JsonArray(items) == [type |-> "array", items |-> items]
NumberValue == [type |-> "number"]
JsonNull == [type |-> "null"]
Missing == [type |-> "undefined"]

\* c.req.json() throws
NotJson == [type |-> "SyntaxError"]

IsString(v) == v.type = "string"

\* the message objects of the bodies
RequestMessages ==
    { [role |-> JsonString(<<"user">>), content |-> JsonString(<<"h">>)],
      [role |-> JsonString(<<"assistant">>), content |-> JsonString(<<"a", "b", "c">>)],
      [role |-> JsonString(<<"user">>), content |-> JsonString(<<"a", "b", "c", "d">>)],
      [role |-> JsonString(<<"system">>), content |-> JsonString(<<"h">>)],
      [role |-> Missing, content |-> JsonString(<<"h">>)],
      [role |-> JsonString(<<"user">>), content |-> NumberValue],
      [role |-> JsonString(<<"user">>), content |-> Missing] }

\* what c.req.json() gives: a SyntaxError, null, or an object whose messages
\* and sessionId are there or not
RequestBodies ==
    {NotJson, JsonNull}
    \cup { [type |-> "object", messages |-> m, sessionId |-> x] :
             m \in {Missing, JsonString(<<"text">>)}
                  \cup { JsonArray(items) :
                           items \in SeqsUpTo(RequestMessages, MAX_MESSAGES + 1) \cup {<<>>} },
             x \in {Missing, JsonString(<<>>), JsonString(<<"s", "1">>)} }

\* a response of the route, or of app.onError for an error it did not catch
BadRequest(msg) == [status |-> 400, success |-> FALSE, error |-> msg]
InternalServerError == [status |-> 500, success |-> FALSE, error |-> <<"Internal Server Error">>]

\* the validation passed: the route goes on to createAgentServices
Proceed == [proceed |-> TRUE]

\* !body.messages || !Array.isArray(body.messages) || body.messages.length === 0
messagesInvalid(b) ==
    \/ b.messages = Missing
    \/ b.messages.type # "array"
    \/ Len(b.messages.items) = 0

\* !body.sessionId
sessionIdInvalid(b) == b.sessionId = Missing \/ b.sessionId = JsonString(<<>>)

\* !m.role || !['user', 'assistant'].includes(m.role) || typeof m.content !== 'string'
messageInvalid(m) ==
    \/ m.role = Missing
    \/ m.role \notin {JsonString(<<"user">>), JsonString(<<"assistant">>)}
    \/ ~IsString(m.content)

\* validateMessagesLimits: the error message, null, or the TypeError of
\* msg.content.length on a content that is not there
RECURSIVE contentLimits(_)
contentLimits(msgs) ==
    IF Len(msgs) = 0 THEN Proceed
    ELSE LET content == Head(msgs).content
         IN  IF content = Missing THEN InternalServerError
             ELSE IF IsString(content) /\ Len(content.value) > MAX_MESSAGE_LENGTH
             THEN BadRequest(<<"Message too long. Maximum length: ", MAX_MESSAGE_LENGTH,
                               " characters">>)
             ELSE contentLimits(Tail(msgs))

validateMessagesLimits(msgs) ==
    IF Len(msgs) > MAX_MESSAGES
    THEN BadRequest(<<"Too many messages. Maximum allowed: ", MAX_MESSAGES>>)
    ELSE contentLimits(msgs)

\* the checks both routes start with
parseAndRequire(b) ==
    IF b = NotJson THEN BadRequest(<<"Invalid JSON body">>)
    ELSE IF b = JsonNull THEN InternalServerError
    ELSE IF messagesInvalid(b)
    THEN BadRequest(<<"Messages array is required and must not be empty">>)
    ELSE IF sessionIdInvalid(b)
    THEN BadRequest(<<"sessionId is required for agent mode">>)
    ELSE Proceed

\* chatRoutes.post('/agent') up to createAgentServices
agentRoute(b) ==
    IF parseAndRequire(b) # Proceed THEN parseAndRequire(b)
    ELSE IF \E i \in 1..Len(b.messages.items) : messageInvalid(b.messages.items[i])
    THEN BadRequest(<<"Invalid message format. Each message must have role (user/assistant) and content (string)">>)
    ELSE validateMessagesLimits(b.messages.items)

\* chatRoutes.post('/agent/stream') up to createAgentServices
agentStreamRoute(b) ==
    IF parseAndRequire(b) # Proceed THEN parseAndRequire(b)
    ELSE validateMessagesLimits(b.messages.items)

RequestInit ==
    /\ AgentIdle
    /\ ServicesIdle

othersThanRequest ==
    <<agentVars, tenantVars, gatewayVars, batchVars, ragVars, execVars, rateVars,
      streamVars>>

\* a request is posted to one of the two endpoints
PostRequest ==
    /\ endpoint = ""
    /\ routeAnswer' = NoOutcome
    /\ servicesCreated' = FALSE
    /\ endpoint' \in {"/agent", "/agent/stream"}
    /\ requestBody' \in RequestBodies
    /\ UNCHANGED othersThanRequest

\* POST /agent answers 400 or 500, or calls createAgentServices
PostAgent ==
    /\ endpoint = "/agent" /\ routeAnswer = NoOutcome
    /\ routeAnswer' = agentRoute(requestBody)
    /\ servicesCreated' = (agentRoute(requestBody) = Proceed)
    /\ UNCHANGED <<endpoint, requestBody, othersThanRequest>>

\* POST /agent/stream answers 400 or 500, or calls createAgentServices
PostAgentStream ==
    /\ endpoint = "/agent/stream" /\ routeAnswer = NoOutcome
    /\ routeAnswer' = agentStreamRoute(requestBody)
    /\ servicesCreated' = (agentStreamRoute(requestBody) = Proceed)
    /\ UNCHANGED <<endpoint, requestBody, othersThanRequest>>

RequestNext ==
    \/ PostRequest
    \/ PostAgent
    \/ PostAgentStream

RequestSpec == RequestInit /\ [][RequestNext]_vars

\* the bodies the routes are to reject: not JSON, no messages array or an
\* empty one, no sessionId, more than MAX_MESSAGES messages, a message longer
\* than MAX_MESSAGE_LENGTH, a role outside {user, assistant}, a content that
\* is not a string
MustReject(b) ==
    \/ b \in {NotJson, JsonNull}
    \/ b.messages.type # "array"
    \/ b.messages.items = <<>>
    \/ b.sessionId.type # "string"
    \/ b.sessionId.value = <<>>
    \/ Len(b.messages.items) > MAX_MESSAGES
    \/ \E i \in 1..Len(b.messages.items) :
          LET m == b.messages.items[i]
          IN  \/ m.role.type # "string"
              \/ m.role.value \notin {<<"user">>, <<"assistant">>}
              \/ m.content.type # "string"
              \/ Len(m.content.value) > MAX_MESSAGE_LENGTH

\* C36: both agent endpoints answer 400, without creating any service, every
\* request whose body is to be rejected
C36_InvalidRequestsRejected ==
    (routeAnswer # NoOutcome /\ MustReject(requestBody)) =>
        /\ "status" \in DOMAIN routeAnswer /\ routeAnswer.status = 400
        /\ ~servicesCreated
====
